---- MODULE Spec2Model ----
(***************************************************************************)
(* Model of gozk (src/zookeeper/gozk.go): the watch registry, the event    *)
(* dispatcher (_watchLoop / sendEvent) and the session life cycle          *)
(* (dial / Redial / Close) together with the watch-creating operations     *)
(* GetW, ChildrenW and ExistsW.                                            *)
(*                                                                         *)
(* Every critical section of watchMutex is one atomic step.  A caller's    *)
(* operation is split at the points where it leaves watchMutex, so that    *)
(* other callers, the runtime and the dispatcher interleave with it.       *)
(***************************************************************************)
EXTENDS Integers, Sequences, FiniteSets, TLC

\* ----------------------------------------------------------------------
\* Bounds of the model.

MaxConns   == 2      \* Conn objects ever allocated by dial
MaxWatches == 3      \* watch ids ever allocated (bounds watchCounter)
MaxPending == 2      \* raw notifications waiting in the C event list
MaxRecv    == 2      \* events a consumer reads from one channel

\* Three scenarios share the actions: concurrent callers with few
\* notifications (Spec), one caller with more notifications (SpecWatch), and
\* one caller next to a session whose consumer has fallen behind (SpecBacklog).
CallerThreads == 2   \* caller goroutines, Spec
CallerNotifs  == 1   \* raw notifications the runtime produces, Spec
WatchThreads  == 1   \* caller goroutines, SpecWatch
WatchNotifs   == 2   \* raw notifications the runtime produces, SpecWatch
BacklogThreads == 1  \* caller goroutines, SpecBacklog
BacklogNotifs  == 1  \* raw notifications the runtime produces, SpecBacklog

\* A fourth scenario, SpecRetry: one caller of RetryChange on one node that
\* other clients write too.
MaxValue       == 1  \* node values 0 .. MaxValue (0 is the empty string)
MaxOtherWrites == 2  \* writes of other clients to the node
MaxRetryCalls  == 2  \* calls of RetryChange

\* A fifth scenario, SpecNode: one caller of Exists, Get, Children and of the
\* watching reads, all at the path of the node that other clients write.
NodeThreads == 1     \* caller goroutines, SpecNode
NodeNotifs  == 2     \* raw notifications the runtime produces, SpecNode

MaxThreads == IF CallerThreads > WatchThreads THEN CallerThreads ELSE WatchThreads

\* ----------------------------------------------------------------------
\* Program constants (gozk.go).

EVENT_CREATED     == 1
EVENT_CHANGED     == 3
EVENT_SESSION     == 0 - 1
EVENT_CLOSED      == 0

STATE_EXPIRED_SESSION == 0 - 112
STATE_AUTH_FAILED     == 0 - 113
STATE_CONNECTING      == 1
STATE_ASSOCIATING     == 2
STATE_CONNECTED       == 3
STATE_CLOSED          == 0

ZOK           == 0
ZNONODE       == 0 - 101
ZNOAUTH       == 0 - 102
ZBADARGUMENTS == 0 - 8
ZCLOSING      == 0 - 116
ZSYSTEMERROR  == 0 - 1
ZBADVERSION   == 0 - 103
ZNODEEXISTS   == 0 - 110

SessionBuf == 32     \* createWatch: buf = 32 when session
WatchBuf   == 1      \* createWatch: buf := 1

ConnIds  == 1 .. MaxConns
Threads  == 1 .. MaxThreads
NoConn   == 0
NoWatch  == 0 - 1

WOps == {"GetW", "ChildrenW", "ExistsW"}

\* States the runtime attaches to a session notification.  STATE_CLOSED
\* "doesn't really exist in zk" (gozk.go, constants for Event State), so
\* the runtime never produces it.
SessionStates == {STATE_CONNECTING, STATE_ASSOCIATING, STATE_CONNECTED,
                  STATE_EXPIRED_SESSION, STATE_AUTH_FAILED}

\* The (type, state) pairs of raw notifications: session notifications in
\* every session state, node notifications in the connected state.
RawKinds ==
  { <<EVENT_SESSION, s>> : s \in SessionStates }
    \cup { <<EVENT_CHANGED, STATE_CONNECTED>> }

\* The zeroed Event a receive on a closed, drained channel yields.
ClosedEvent == [Type |-> EVENT_CLOSED, State |-> STATE_CLOSED, seq |-> 0]

VARIABLES
  conn,              \* ConnIds -> the Conn structs (made, watchChannels, sessionWatchId, handle, mutex)
  watchConns,        \* var watchConns: watch id -> owning Conn (a function on the registered ids)
  watchCounter,      \* var watchCounter
  watchLoopCounter,  \* var watchLoopCounter
  loops,             \* number of _watchLoop goroutines started so far
  chan,              \* the channels made by createWatch, by watch id: buf, closed, cap
  rawQueue,          \* the runtime's list of raw notifications not yet taken by wait_for_watch
  thread,            \* Threads -> position and locals of each caller
  panicked,          \* the message of the panic that terminated the process, or NoPanic
  \* history (not read by the program)
  produced,          \* number of raw notifications produced so far
  recvd,             \* per channel, the real events its consumer has received: their number, the latest seq
  returned,          \* channels handed to a caller
  installed,         \* watch ids the runtime accepted as a watch context
  info,              \* per watch id: the Conn and the kind of call that made it, its fate
                     \* (live, delivered, forgotten, closed) and how sendEvent last
                     \* dropped a notification for it (no, filtered, absent)
  lim,               \* the scenario: number of callers and of raw notifications
  node,              \* the node at the path of RetryChange, as the server holds it
  retry,             \* position and locals of the caller of RetryChange
  writers,           \* number of writes other clients have made to the node
  out                \* what the step that led here gave its caller or consumer: the values a
                     \* call returned, the result of a receive, or nothing

vars == <<conn, watchConns, watchCounter, watchLoopCounter, loops, chan,
          rawQueue, thread, panicked, produced, recvd, returned,
          installed, info, lim, node, retry, writers, out>>

\* What RetryChange and the node's other writers leave alone.
sessionVars == <<conn, watchConns, watchCounter, watchLoopCounter, loops, chan,
                 rawQueue, thread, panicked, produced, recvd, returned,
                 installed, info, lim>>


NoPanic == ""

AllocIds == 0 .. (watchCounter - 1)

Idle == [pc |-> "idle", zk |-> NoConn, watchId |-> NoWatch, op |-> "", rc |-> ZOK]

\* The step gave nothing to a caller or a consumer.
NoOut == [kind |-> "none"]

\* A call returned: its error (ZOK for nil) and whether it returned a channel.
Ret(op, err, watch) == [kind |-> "ret", op |-> op, err |-> err, watch |-> watch]

\* A read returned: its data and stat as well (EmptyValue for "" and for an
\* operation without data, NoStat for a nil stat).
Result(op, data, stat, err, watch) ==
  [kind |-> "ret", op |-> op, err |-> err, watch |-> watch,
   data |-> data, stat |-> stat]

\* A receive on channel w returned (event, ok).
Got(w, event, ok) == [kind |-> "recv", w |-> w, event |-> event, ok |-> ok]

\* Nothing received yet on a channel.
NoRecv == [n |-> 0, seq |-> 0]

\* &Conn{} with watchChannels = make(map[uintptr]chan Event)
NewConn == [made |-> TRUE, watchChannels |-> {}, sessionWatchId |-> 0,
            handle |-> "nil", mutex |-> 0, visible |-> FALSE]

NoConnYet == [made |-> FALSE, watchChannels |-> {}, sessionWatchId |-> 0,
              handle |-> "nil", mutex |-> 0, visible |-> FALSE]

\* Node values: strings, 0 for the empty string.
Values == 0 .. MaxValue
EmptyValue == 0

\* A nil *Stat; a Stat is modelled by its Version().
NoStat == 0 - 1

\* No node at the path.
Absent == [exists |-> FALSE, value |-> EmptyValue, version |-> 0]

\* The changeFunc of a call: from what Get gave (NoStat for a nil stat
\* with the empty value, else the value read) to the new value, or to
\* ChangeFails when it returns an error.
ChangeFails == 0 - 1
ChangeFuncs == [{NoStat} \cup Values -> {ChangeFails} \cup Values]

\* The error a changeFunc returns: not a status of the runtime.
ErrChange == 1

\* No RetryChange is running.  The locals of RetryChange are f, oldValue,
\* oldStat, newValue and err; the rest is history: the calls made so far,
\* the calls of changeFunc and of Create and Set in this call, the node
\* when the call was made, and whether the call repeats, with the same
\* changeFunc, a call that has just returned nil with its last err nil.
RetryIdle == [pc |-> "idle", f |-> [x \in {NoStat} \cup Values |-> x],
              oldValue |-> EmptyValue, oldStat |-> NoStat, newValue |-> EmptyValue,
              err |-> ZOK, called |-> 0, applied |-> 0, writes |-> 0,
              start |-> Absent, again |-> FALSE]

\* The state of the process before the first call, in scenario l.
StartOf(l) ==
  /\ lim = l
  /\ conn = [c \in ConnIds |-> NoConnYet]
  /\ watchConns = << >>
  /\ watchCounter = 0
  /\ watchLoopCounter = 0
  /\ loops = 0
  /\ chan = << >>
  /\ rawQueue = << >>
  /\ thread = [t \in Threads |-> Idle]
  /\ panicked = NoPanic
  /\ produced = 0
  /\ recvd = << >>
  /\ returned = {}
  /\ installed = {}
  /\ info = << >>
  /\ out = NoOut

\* A scenario whose calls are at paths other than that of the node.
Start(threads, notifs) ==
  StartOf([threads |-> threads, notifs |-> notifs, tracked |-> FALSE])

\* No RetryChange is called and no other client writes.
NoRetry ==
  /\ node = Absent
  /\ retry = RetryIdle
  /\ writers = 0

Init == Start(CallerThreads, CallerNotifs) /\ NoRetry

InitWatch == Start(WatchThreads, WatchNotifs) /\ NoRetry

\* Session notifications a consumer has left in the session channel: it is full.
\* They were produced before those the model produces: seq below 1.
Backlog == SessionBuf

BacklogEvent(i) ==
  [Type |-> EVENT_SESSION,
   State |-> IF i % 2 = 1 THEN STATE_CONNECTING ELSE STATE_CONNECTED,
   seq |-> i - Backlog - 1]

\* The state after one Dial by a process that then received Backlog
\* session notifications (a flapping connection) and read none of them.
InitBacklog ==
  /\ NoRetry
  /\ lim = [threads |-> BacklogThreads, notifs |-> BacklogNotifs, tracked |-> FALSE]
  /\ conn = [c \in ConnIds |->
               IF c = 1
               THEN [made |-> TRUE, watchChannels |-> {0}, sessionWatchId |-> 0,
                     handle |-> "live", mutex |-> 0, visible |-> TRUE]
               ELSE NoConnYet]
  /\ watchConns = [w \in {0} |-> 1]
  /\ watchCounter = 1
  /\ watchLoopCounter = 1
  /\ loops = 1
  /\ chan = [w \in {0} |->
               [buf |-> [i \in 1 .. Backlog |-> BacklogEvent(i)],
                closed |-> FALSE, cap |-> SessionBuf]]
  /\ rawQueue = << >>
  /\ thread = [t \in Threads |-> Idle]
  /\ panicked = NoPanic
  /\ produced = 0
  /\ recvd = [w \in {0} |-> [n |-> 0, seq |-> 0 - Backlog - 1]]
  /\ returned = {0}
  /\ installed = {0}
  /\ info = [w \in {0} |->
               [owner |-> 1, kind |-> "session", fate |-> "live", dropped |-> "no"]]
  /\ out = NoOut

\* History of a watch made by createWatch: the Conn it was made for, the
\* call that made it, and what has become of it since.
Track(zk, kind) ==
  /\ info' = [w \in 0 .. watchCounter |->
                IF w = watchCounter
                THEN [owner |-> zk, kind |-> kind, fate |-> "live", dropped |-> "no"]
                ELSE info[w]]
  /\ recvd' = [w \in 0 .. watchCounter |->
                IF w = watchCounter THEN NoRecv ELSE recvd[w]]

\* The watches of Conn zk that are live lose that fate.
Fate(ids, f) ==
  info' = [w \in DOMAIN info |->
             IF w \in ids /\ info[w].fate = "live"
             THEN [info[w] EXCEPT !.fate = f] ELSE info[w]]

OwnedBy(zk) == { w \in DOMAIN info : info[w].owner = zk }

\* ----------------------------------------------------------------------
\* Channels.

\* make(chan Event, buf)
MakeChan(buf) == [buf |-> << >>, closed |-> FALSE, cap |-> buf]

\* A select whose send always proceeds.
CanSendAlways(ch) == TRUE

\* The select of sendEvent: "case ch <- event" can proceed.
CanSend(ch) == Len(ch.buf) < ch.cap

\* A send that puts the event ahead of those waiting.
ChanSendFront(ch, event) == [ch EXCEPT !.buf = <<event>> \o @]

\* ch <- event
ChanSend(ch, event) == [ch EXCEPT !.buf = Append(@, event)]

\* A close that leaves the channel open.
ChanCloseNot(ch) == ch

\* close(ch)
ChanClose(ch) == [ch EXCEPT !.closed = TRUE]

\* A removal that removes nothing.
MapDeleteNone(m, ks) == m

\* Removal of a key from a map: m[k] = nil, false
MapDelete(m, ks) == [k \in (DOMAIN m) \ ks |-> m[k]]

\* ----------------------------------------------------------------------
\* The watch registry.

\* CountPendingWatches: len(watchConns)
CountPendingWatches == Cardinality(DOMAIN watchConns)

\* A createWatch that makes unbuffered channels.
BufSizeUnbuffered(session) == 0

\* createWatch: the buffer size of the new channel.
BufSize(session) == IF session THEN SessionBuf ELSE WatchBuf

\* A createWatch that leaves watchCounter as it is.
createWatchSameId(cn, zk, session) ==
  LET watchId == watchCounter IN
  /\ watchCounter' = watchCounter
  /\ chan' = [w \in 0 .. watchCounter |->
                IF w = watchId THEN MakeChan(BufSize(session)) ELSE chan[w]]
  /\ conn' = [cn EXCEPT ![zk].watchChannels = @ \cup {watchId}]
  /\ watchConns' = [w \in (DOMAIN watchConns) \cup {watchId} |->
                      IF w = watchId THEN zk ELSE watchConns[w]]

\* A createWatch that registers the watch with its Conn only.
createWatchUnlisted(cn, zk, session) ==
  LET watchId == watchCounter IN
  /\ watchCounter' = watchCounter + 1
  /\ chan' = [w \in 0 .. watchCounter |->
                IF w = watchId THEN MakeChan(BufSize(session)) ELSE chan[w]]
  /\ conn' = [cn EXCEPT ![zk].watchChannels = @ \cup {watchId}]
  /\ UNCHANGED watchConns

\* createWatch(session) on Conn zk; cn is the Conn table the call starts
\* from.  The new watch id is the value of watchCounter before the call.
createWatch(cn, zk, session) ==
  LET watchId == watchCounter IN
  /\ watchCounter' = watchCounter + 1
  /\ chan' = [w \in 0 .. watchCounter |->
                IF w = watchId THEN MakeChan(BufSize(session)) ELSE chan[w]]
  /\ conn' = [cn EXCEPT ![zk].watchChannels = @ \cup {watchId}]
  /\ watchConns' = [w \in (DOMAIN watchConns) \cup {watchId} |->
                      IF w = watchId THEN zk ELSE watchConns[w]]

\* A forgetWatch that leaves the watch where it is.
forgetWatchKeeps(cn, zk, watchId) ==
  /\ conn' = cn
  /\ UNCHANGED <<watchConns, chan, panicked>>

\* forgetWatch(watchId) on Conn zk.
forgetWatch(cn, zk, watchId) ==
  /\ conn' = [cn EXCEPT ![zk].watchChannels = @ \ {watchId}]
  /\ watchConns' = MapDelete(watchConns, {watchId})
  /\ UNCHANGED <<chan, panicked>>

\* A closeAllWatches that ranges over watchConns, not zk.watchChannels.
closeAllWatchesOfAll(cn, zk) ==
  LET ids == DOMAIN watchConns IN
  /\ chan' = [w \in DOMAIN chan |->
                IF w \in ids THEN ChanClose(chan[w]) ELSE chan[w]]
  /\ conn' = [cn EXCEPT ![zk].watchChannels = {}]
  /\ watchConns' = MapDelete(watchConns, ids)
  /\ UNCHANGED panicked

\* A closeAllWatches that empties the maps and closes no channel.
closeAllWatchesLeavesOpen(cn, zk) ==
  LET ids == cn[zk].watchChannels IN
  /\ conn' = [cn EXCEPT ![zk].watchChannels = {}]
  /\ watchConns' = MapDelete(watchConns, ids)
  /\ UNCHANGED <<chan, panicked>>

\* closeAllWatches on Conn zk: every channel of zk.watchChannels is closed
\* and its id leaves both maps.  close of a closed channel panics.
closeAllWatches(cn, zk) ==
  LET ids == cn[zk].watchChannels IN
  IF \E w \in ids : chan[w].closed
  THEN /\ panicked' = "close of closed channel"
       /\ conn' = cn
       /\ UNCHANGED <<watchConns, chan>>
  ELSE /\ chan' = [w \in DOMAIN chan |->
                     IF w \in ids THEN ChanClose(chan[w]) ELSE chan[w]]
       /\ conn' = [cn EXCEPT ![zk].watchChannels = {}]
       /\ watchConns' = MapDelete(watchConns, ids)
       /\ UNCHANGED panicked

\* ----------------------------------------------------------------------
\* The dispatcher.

\* A sendEvent without the filter.
FilteredNever(zk, watchId, event) == FALSE

\* A sendEvent whose filter also stops the expired and auth-failed states.
FilteredAlways(zk, watchId, event) ==
  /\ event.Type = EVENT_SESSION
  /\ watchId # conn[zk].sessionWatchId

\* sendEvent: the filter on session events addressed to a watch that is
\* not the session watch of its Conn.
Filtered(zk, watchId, event) ==
  /\ event.Type = EVENT_SESSION
  /\ watchId # conn[zk].sessionWatchId
  /\ event.State \notin {STATE_EXPIRED_SESSION, STATE_AUTH_FAILED}

\* A sendEvent that retires no watch.
RetiresNever(zk, watchId) == FALSE

\* A sendEvent that retires the session watch too.
RetiresAlways(zk, watchId) == TRUE

\* sendEvent: the watch is retired after the send unless it is the
\* session watch.
Retires(zk, watchId) == watchId # conn[zk].sessionWatchId

\* A sendEvent without the return for an id that watchConns does not hold:
\* zk is nil and zk.sessionWatchId is a nil dereference.
sendEventNoLookup(watchId, event) ==
  IF event.State = STATE_CLOSED
  THEN /\ panicked' = "Attempted to send a CLOSED event"
       /\ UNCHANGED <<conn, watchConns, chan>>
  ELSE IF watchId \notin DOMAIN watchConns
  THEN /\ panicked' = "invalid memory address or nil pointer dereference"
       /\ UNCHANGED <<conn, watchConns, chan>>
  ELSE LET zk == watchConns[watchId] IN
    IF Filtered(zk, watchId, event)
    THEN UNCHANGED <<conn, watchConns, chan, panicked>>
    ELSE IF watchId \notin conn[zk].watchChannels
    THEN UNCHANGED <<conn, watchConns, chan, panicked>>
    ELSE IF ~CanSend(chan[watchId])
    THEN /\ panicked' = IF watchId = conn[zk].sessionWatchId
                        THEN "Session event channel buffer is full"
                        ELSE "Watch event channel buffer is full"
         /\ UNCHANGED <<conn, watchConns, chan>>
    ELSE IF Retires(zk, watchId)
    THEN /\ conn' = [conn EXCEPT ![zk].watchChannels = @ \ {watchId}]
         /\ watchConns' = MapDelete(watchConns, {watchId})
         /\ chan' = [chan EXCEPT ![watchId] = ChanClose(ChanSend(@, event))]
         /\ UNCHANGED panicked
    ELSE /\ chan' = [chan EXCEPT ![watchId] = ChanSend(@, event)]
         /\ UNCHANGED <<conn, watchConns, panicked>>

\* A sendEvent that closes the channel of a retired watch and leaves its
\* id in both tables.
sendEventKeepsEntry(watchId, event) ==
  IF event.State = STATE_CLOSED
  THEN /\ panicked' = "Attempted to send a CLOSED event"
       /\ UNCHANGED <<conn, watchConns, chan>>
  ELSE IF watchId \notin DOMAIN watchConns
  THEN UNCHANGED <<conn, watchConns, chan, panicked>>
  ELSE LET zk == watchConns[watchId] IN
    IF Filtered(zk, watchId, event)
    THEN UNCHANGED <<conn, watchConns, chan, panicked>>
    ELSE IF watchId \notin conn[zk].watchChannels
    THEN UNCHANGED <<conn, watchConns, chan, panicked>>
    ELSE IF ~CanSend(chan[watchId])
    THEN /\ panicked' = IF watchId = conn[zk].sessionWatchId
                        THEN "Session event channel buffer is full"
                        ELSE "Watch event channel buffer is full"
         /\ UNCHANGED <<conn, watchConns, chan>>
    ELSE IF Retires(zk, watchId)
    THEN /\ chan' = [chan EXCEPT ![watchId] = ChanClose(ChanSend(@, event))]
         /\ UNCHANGED <<conn, watchConns, panicked>>
    ELSE /\ chan' = [chan EXCEPT ![watchId] = ChanSend(@, event)]
         /\ UNCHANGED <<conn, watchConns, panicked>>

\* sendEvent(watchId, event), one critical section of watchMutex.
sendEvent(watchId, event) ==
  IF event.State = STATE_CLOSED
  THEN /\ panicked' = "Attempted to send a CLOSED event"
       /\ UNCHANGED <<conn, watchConns, chan>>
  ELSE IF watchId \notin DOMAIN watchConns
  THEN UNCHANGED <<conn, watchConns, chan, panicked>>
  ELSE LET zk == watchConns[watchId] IN
    IF Filtered(zk, watchId, event)
    THEN UNCHANGED <<conn, watchConns, chan, panicked>>
    ELSE IF watchId \notin conn[zk].watchChannels
    THEN UNCHANGED <<conn, watchConns, chan, panicked>>
    ELSE IF ~CanSend(chan[watchId])
    THEN /\ panicked' = IF watchId = conn[zk].sessionWatchId
                        THEN "Session event channel buffer is full"
                        ELSE "Watch event channel buffer is full"
         /\ UNCHANGED <<conn, watchConns, chan>>
    ELSE IF Retires(zk, watchId)
    THEN /\ conn' = [conn EXCEPT ![zk].watchChannels = @ \ {watchId}]
         /\ watchConns' = MapDelete(watchConns, {watchId})
         /\ chan' = [chan EXCEPT ![watchId] = ChanClose(ChanSend(@, event))]
         /\ UNCHANGED panicked
    ELSE /\ chan' = [chan EXCEPT ![watchId] = ChanSend(@, event)]
         /\ UNCHANGED <<conn, watchConns, panicked>>

\* ----------------------------------------------------------------------
\* The runtime (the C client library), as far as it produces notifications.

\* Watch ids a raw notification may carry: ids the runtime was given and
\* accepted, and ids that have already left the registry (stale ones).
Notifiable == installed \cup (AllocIds \ DOMAIN watchConns)

\* watch_handler appends a raw notification to the event list.  The
\* program sees nothing of a notification before wait_for_watch returns
\* it, so the list holds the order of production (seq) and the content is
\* drawn when it is returned.
RuntimeNotify ==
  /\ panicked = NoPanic
  /\ UNCHANGED <<lim, node, retry, writers>>
  /\ produced < lim.notifs
  /\ Len(rawQueue) < MaxPending
  /\ rawQueue' = Append(rawQueue, produced + 1)
  /\ out' = NoOut
  /\ produced' = produced + 1
  /\ UNCHANGED <<conn, watchConns, watchCounter, watchLoopCounter, loops, chan,
                 thread, panicked, recvd, returned, installed, info>>

\* The (type, state) pairs of the scenario.  At the node's path the session
\* stays connected, and the node notifications are those of the node's
\* creation and of its change.
Kinds ==
  IF lim.tracked
  THEN { <<EVENT_SESSION, STATE_CONNECTED>>, <<EVENT_CREATED, STATE_CONNECTED>>,
         <<EVENT_CHANGED, STATE_CONNECTED>> }
  ELSE RawKinds

\* The raw notification wait_for_watch returns next: the oldest.
NextRaw == Head(rawQueue)

\* The Event _watchLoop builds from the data of a raw notification.
RawEvent(k, seq) == [Type |-> k[1], State |-> k[2], seq |-> seq]

\* One iteration of _watchLoop: wait_for_watch returns the raw notification
\* NextRaw, here with watch context watchId and (type, state) k, and
\* sendEvent handles it.
Dispatch(watchId, k) ==
  /\ panicked = NoPanic
  /\ UNCHANGED <<lim, node, retry, writers>>
  /\ loops > 0
  /\ rawQueue # << >>
  /\ watchId \in Notifiable
  /\ sendEvent(watchId, RawEvent(k, NextRaw))
  /\ rawQueue' = SelectSeq(rawQueue, LAMBDA q : q # NextRaw)
  /\ info' = IF info[watchId].kind = "watch" /\ chan'[watchId].buf # chan[watchId].buf
             THEN [info EXCEPT ![watchId].fate = "delivered"]
             ELSE IF chan'[watchId] # chan[watchId] \/ panicked' # NoPanic
                  THEN info
                  ELSE [info EXCEPT ![watchId].dropped =
                          IF info[watchId].fate = "live" THEN "filtered" ELSE "absent"]
  /\ out' = NoOut
  /\ UNCHANGED <<watchCounter, watchLoopCounter, loops, thread, produced,
                 recvd, returned, installed>>

WatchLoop == \E watchId \in AllocIds, k \in Kinds : Dispatch(watchId, k)

\* ----------------------------------------------------------------------
\* Consumers of the channels handed to callers.

\* event, ok := <-ch.  Blocks while the channel is empty and open; a
\* closed and empty channel yields the zeroed Event and ok = false.
Recv(w) ==
  /\ panicked = NoPanic
  /\ UNCHANGED <<lim, node, retry, writers>>
  /\ w \in returned
  /\ IF chan[w].buf # << >>
     THEN /\ recvd[w].n < MaxRecv
          /\ chan' = [chan EXCEPT ![w].buf = Tail(@)]
          /\ recvd' = [recvd EXCEPT ![w] =
                         [n |-> @.n + 1, seq |-> Head(chan[w].buf).seq]]
          /\ out' = Got(w, Head(chan[w].buf), TRUE)
     ELSE /\ chan[w].closed
          /\ out' = Got(w, ClosedEvent, FALSE)
          /\ UNCHANGED <<chan, recvd>>
  /\ UNCHANGED <<conn, watchConns, watchCounter, watchLoopCounter, loops,
                 rawQueue, thread, panicked, produced, returned,
                 installed, info>>

\* ----------------------------------------------------------------------
\* The dispatcher's reference count.

\* A runWatchLoop that does not count.
runWatchLoopNoCount ==
  /\ loops' = IF watchLoopCounter = 0 THEN loops + 1 ELSE loops
  /\ UNCHANGED watchLoopCounter

\* runWatchLoop: the goroutine is started when the counter is zero.
runWatchLoop ==
  /\ loops' = IF watchLoopCounter = 0 THEN loops + 1 ELSE loops
  /\ watchLoopCounter' = watchLoopCounter + 1

\* A stopWatchLoop that only decrements.
stopWatchLoopPlain ==
  /\ watchLoopCounter' = watchLoopCounter - 1
  /\ UNCHANGED loops

\* stopWatchLoop: the counter is decremented and, when that makes it
\* zero, incremented again; the goroutine is never stopped.
stopWatchLoop ==
  /\ watchLoopCounter' = IF watchLoopCounter - 1 = 0 THEN 1
                         ELSE watchLoopCounter - 1
  /\ UNCHANGED loops

\* ----------------------------------------------------------------------
\* The runtime's synchronous calls.

\* Status of zoo_wget / zoo_wget_children2 / zoo_wexists for a handle.  A
\* nil handle is refused; a handle already passed to zookeeper_close is
\* freed memory, and the call may report anything.
NativeRc(handle) ==
  IF handle = "nil" THEN {ZBADARGUMENTS}
  ELSE IF lim.tracked /\ handle = "live"
  THEN (IF node.exists THEN {ZOK} ELSE {ZNONODE}) \cup {ZNOAUTH}
  ELSE {ZOK, ZNONODE, ZNOAUTH}

\* The zero value of "var cstat Stat".
ZeroStat == 0

\* What the runtime writes through a stat pointer when the status is ZOK:
\* the node's stat when the call is at the node's path, anything for a
\* freed handle.
NativeStat(handle) ==
  IF ~lim.tracked THEN {ZeroStat}
  ELSE IF handle = "live" THEN {node.version}
  ELSE 0 .. MaxOtherWrites

\* What the runtime writes into the buffer of zoo_wget when the status is ZOK.
NativeData(handle) ==
  IF ~lim.tracked THEN {EmptyValue}
  ELSE IF handle = "live" THEN {node.value}
  ELSE Values

\* Status of zookeeper_close.
CloseRc == {ZOK, ZSYSTEMERROR}

\* An ExistsW for which ZNONODE is a failure like for GetW and ChildrenW.
SucceedsOnZOK(op, rc) == rc = ZOK

\* GetW, ChildrenW, ExistsW: the statuses on which the channel is returned.
Succeeds(op, rc) == rc = ZOK \/ (op = "ExistsW" /\ rc = ZNONODE)

\* zkError, as far as the status decides it.
zkError(rc) == rc

\* The caller's call returns r.
Return(t, r) ==
  /\ thread' = [thread EXCEPT ![t] = Idle]
  /\ out' = r

\* Idle callers are interchangeable: the next call is made by the first.
Calls(t) ==
  /\ t <= lim.threads
  /\ thread[t].pc = "idle"
  /\ \A u \in Threads : u < t => thread[u].pc # "idle"

Goto(t, pc) == thread' = [thread EXCEPT ![t].pc = pc]

\* ----------------------------------------------------------------------
\* dial (Dial and Redial).

\* The Conn dial allocates next.
FreshConn == CHOOSE c \in ConnIds : ~conn[c].made /\ \A d \in ConnIds : d < c => conn[d].made

\* dial up to zk.createWatch(true).
Dial(t, op) ==
  /\ panicked = NoPanic
  /\ UNCHANGED <<lim, node, retry, writers>>
  /\ Calls(t)
  /\ \E c \in ConnIds : ~conn[c].made
  /\ watchCounter < MaxWatches
  /\ LET zk == FreshConn IN
       /\ createWatch([conn EXCEPT ![zk] = NewConn], zk, TRUE)
       /\ Track(zk, "session")
       /\ thread' = [thread EXCEPT ![t] =
             [pc |-> "dial_init", zk |-> zk, watchId |-> watchCounter,
              op |-> op, rc |-> ZOK]]
  /\ out' = NoOut
  /\ UNCHANGED <<watchLoopCounter, loops, rawQueue, panicked, produced,
                 returned, installed>>

\* A dial that returns the error and leaves the session watch registered.
DialInitLeaks(t) ==
  /\ panicked = NoPanic
  /\ UNCHANGED <<lim, node, retry, writers>>
  /\ thread[t].pc = "dial_init"
  /\ LET zk == thread[t].zk
         watchId == thread[t].watchId
         cn == [conn EXCEPT ![zk].sessionWatchId = watchId]
     IN \E handle \in {"nil", "live"} :
          IF handle = "nil"
          THEN /\ conn' = cn
               /\ Return(t, Ret(thread[t].op, zkError(ZSYSTEMERROR), FALSE))
               /\ UNCHANGED <<installed, watchConns, chan, panicked, info>>
          ELSE /\ conn' = [cn EXCEPT ![zk].handle = handle]
               /\ installed' = installed \cup {watchId}
               /\ Goto(t, "dial_run")
               /\ out' = NoOut
               /\ UNCHANGED <<watchConns, chan, panicked, info>>
  /\ UNCHANGED <<watchCounter, watchLoopCounter, loops, rawQueue, produced,
                 recvd, returned>>

\* A dial that does not set zk.sessionWatchId.
DialInitNoSessionId(t) ==
  /\ panicked = NoPanic
  /\ UNCHANGED <<lim, node, retry, writers>>
  /\ thread[t].pc = "dial_init"
  /\ LET zk == thread[t].zk
         watchId == thread[t].watchId
         cn == conn
     IN \E handle \in {"nil", "live"} :
          IF handle = "nil"
          THEN /\ closeAllWatches(cn, zk)
               /\ Fate(OwnedBy(zk), "closed")
               /\ Return(t, Ret(thread[t].op, zkError(ZSYSTEMERROR), FALSE))
               /\ UNCHANGED installed
          ELSE /\ conn' = [cn EXCEPT ![zk].handle = handle]
               /\ installed' = installed \cup {watchId}
               /\ Goto(t, "dial_run")
               /\ out' = NoOut
               /\ UNCHANGED <<watchConns, chan, panicked, info>>
  /\ UNCHANGED <<watchCounter, watchLoopCounter, loops, rawQueue, produced,
                 recvd, returned>>

\* dial from zk.sessionWatchId = watchId to the test of the handle that
\* zookeeper_init returned.
DialInit(t) ==
  /\ panicked = NoPanic
  /\ UNCHANGED <<lim, node, retry, writers>>
  /\ thread[t].pc = "dial_init"
  /\ LET zk == thread[t].zk
         watchId == thread[t].watchId
         cn == [conn EXCEPT ![zk].sessionWatchId = watchId]
     IN \E handle \in {"nil", "live"} :
          IF handle = "nil"
          THEN /\ closeAllWatches(cn, zk)
               /\ Fate(OwnedBy(zk), "closed")
               /\ Return(t, Ret(thread[t].op, zkError(ZSYSTEMERROR), FALSE))
               /\ UNCHANGED installed
          ELSE /\ conn' = [cn EXCEPT ![zk].handle = handle]
               /\ installed' = installed \cup {watchId}
               /\ Goto(t, "dial_run")
               /\ out' = NoOut
               /\ UNCHANGED <<watchConns, chan, panicked, info>>
  /\ UNCHANGED <<watchCounter, watchLoopCounter, loops, rawQueue, produced,
                 recvd, returned>>

\* dial from runWatchLoop() to the return of the Conn and its channel.
DialRun(t) ==
  /\ panicked = NoPanic
  /\ UNCHANGED <<lim, node, retry, writers>>
  /\ thread[t].pc = "dial_run"
  /\ runWatchLoop
  /\ conn' = [conn EXCEPT ![thread[t].zk].visible = TRUE]
  /\ returned' = returned \cup {thread[t].watchId}
  /\ Return(t, Ret(thread[t].op, zkError(ZOK), TRUE))
  /\ UNCHANGED <<watchConns, watchCounter, chan, rawQueue, panicked, produced,
                 recvd, installed, info>>

\* ----------------------------------------------------------------------
\* GetW, ChildrenW, ExistsW.

\* The argument the three operations pass to createWatch.
WatchIsSession == TRUE

\* The operation up to zk.createWatch(true).
WStart(t, zk, op) ==
  /\ panicked = NoPanic
  /\ UNCHANGED <<lim, node, retry, writers>>
  /\ Calls(t)
  /\ conn[zk].visible
  /\ watchCounter < MaxWatches
  /\ createWatch(conn, zk, WatchIsSession)
  /\ Track(zk, "watch")
  /\ thread' = [thread EXCEPT ![t] =
        [pc |-> "w_call", zk |-> zk, watchId |-> watchCounter, op |-> op, rc |-> ZOK]]
  /\ out' = NoOut
  /\ UNCHANGED <<watchLoopCounter, loops, rawQueue, panicked, produced,
                 returned, installed>>

\* The native call with the watch id as context, and the return of the
\* channel when the status is a success.
WCall(t) ==
  /\ panicked = NoPanic
  /\ UNCHANGED <<lim, node, retry, writers>>
  /\ thread[t].pc = "w_call"
  /\ LET zk == thread[t].zk
         watchId == thread[t].watchId
         op == thread[t].op
     IN \E rc \in NativeRc(conn[zk].handle),
           cstat \in NativeStat(conn[zk].handle),
           cbuffer \in NativeData(conn[zk].handle) :
          IF Succeeds(op, rc)
          THEN /\ installed' = installed \cup {watchId}
               /\ returned' = returned \cup {watchId}
               /\ Return(t, Result(op,
                                   IF op = "GetW" THEN cbuffer ELSE EmptyValue,
                                   IF rc = ZOK THEN cstat ELSE NoStat,
                                   zkError(ZOK), TRUE))
          ELSE /\ thread' = [thread EXCEPT ![t].pc = "w_forget", ![t].rc = rc]
               /\ out' = NoOut
               /\ UNCHANGED <<installed, returned>>
  /\ UNCHANGED <<conn, watchConns, watchCounter, watchLoopCounter, loops, chan,
                 rawQueue, panicked, produced, recvd, info>>

\* zk.forgetWatch(watchId) and the return of the error.
WForget(t) ==
  /\ panicked = NoPanic
  /\ UNCHANGED <<lim, node, retry, writers>>
  /\ thread[t].pc = "w_forget"
  /\ forgetWatch(conn, thread[t].zk, thread[t].watchId)
  /\ Fate({thread[t].watchId}, "forgotten")
  /\ Return(t, Ret(thread[t].op, zkError(thread[t].rc), FALSE))
  /\ UNCHANGED <<watchCounter, watchLoopCounter, loops, rawQueue, produced,
                 recvd, returned, installed>>

\* ----------------------------------------------------------------------
\* Get, Children, Exists.

\* A call that touches nothing but what it returns.
Reads(t, zk) ==
  /\ panicked = NoPanic
  /\ Calls(t)
  /\ conn[zk].visible
  /\ UNCHANGED <<lim, node, retry, writers>>
  /\ UNCHANGED <<conn, watchConns, watchCounter, watchLoopCounter, loops, chan,
                 rawQueue, thread, panicked, produced, recvd, returned,
                 installed, info>>

\* Get: zoo_wget without a watcher; "", nil and the error unless ZOK.
Get(t, zk) ==
  /\ Reads(t, zk)
  /\ \E rc \in NativeRc(conn[zk].handle),
        cstat \in NativeStat(conn[zk].handle),
        cbuffer \in NativeData(conn[zk].handle) :
        out' = IF rc # ZOK
               THEN Result("Get", EmptyValue, NoStat, zkError(rc), FALSE)
               ELSE Result("Get", cbuffer, cstat, zkError(ZOK), FALSE)

\* Children: zoo_wget_children2 without a watcher; the stat when ZOK, else
\* the error.  The node has no children: cvector.count is 0.
Children(t, zk) ==
  /\ Reads(t, zk)
  /\ \E rc \in NativeRc(conn[zk].handle),
        cstat \in NativeStat(conn[zk].handle) :
        out' = IF rc = ZOK
               THEN Result("Children", EmptyValue, cstat, zkError(ZOK), FALSE)
               ELSE Result("Children", EmptyValue, NoStat, zkError(rc), FALSE)

\* An Exists for which ZNONODE is an error like the others.
ExistsStrict(t, zk) ==
  /\ Reads(t, zk)
  /\ \E rc \in NativeRc(conn[zk].handle) :
        out' = IF rc = ZOK
               THEN Result("Exists", EmptyValue, ZeroStat, zkError(ZOK), FALSE)
               ELSE Result("Exists", EmptyValue, NoStat, zkError(rc), FALSE)

\* Exists: zoo_wexists without a watcher.  The stat pointer it is given is
\* &stat.c of the result stat, which is nil: the runtime is handed a null
\* pointer and writes no stat, and cstat, whose address is returned when
\* ZOK, keeps its zero value.  ZNONODE is not an error.
Exists(t, zk) ==
  /\ Reads(t, zk)
  /\ \E rc \in NativeRc(conn[zk].handle) :
        out' = IF rc = ZOK
               THEN Result("Exists", EmptyValue, ZeroStat, zkError(ZOK), FALSE)
               ELSE IF rc # ZNONODE
               THEN Result("Exists", EmptyValue, NoStat, zkError(rc), FALSE)
               ELSE Result("Exists", EmptyValue, NoStat, zkError(ZOK), FALSE)

\* ----------------------------------------------------------------------
\* Close.

\* A Close without zk.mutex.
CloseLockNoMutex(t, zk) ==
  /\ panicked = NoPanic
  /\ UNCHANGED <<lim, node, retry, writers>>
  /\ conn[zk].visible
  /\ Calls(t)
  /\ IF conn[zk].handle = "nil"
     THEN /\ Return(t, Ret("Close", ZCLOSING, FALSE))
          /\ UNCHANGED conn
     ELSE /\ \E rc \in CloseRc :
               thread' = [thread EXCEPT ![t] =
                  [pc |-> "close_watches", zk |-> zk, watchId |-> NoWatch,
                   op |-> "Close", rc |-> rc]]
          /\ conn' = [conn EXCEPT ![zk].mutex = t, ![zk].handle = "freed"]
          /\ out' = NoOut
  /\ UNCHANGED <<watchConns, watchCounter, watchLoopCounter, loops, chan,
                 rawQueue, panicked, produced, recvd, returned, installed,
                 info>>

\* A Close without the test of zk.handle.
CloseLockNoTest(t, zk) ==
  /\ panicked = NoPanic
  /\ UNCHANGED <<lim, node, retry, writers>>
  /\ conn[zk].visible
  /\ IF thread[t].pc = "close_wait"
     THEN thread[t].zk = zk /\ conn[zk].mutex = 0
     ELSE Calls(t)
  /\ IF conn[zk].mutex # 0
     THEN /\ thread' = [thread EXCEPT ![t] =
                  [pc |-> "close_wait", zk |-> zk, watchId |-> NoWatch,
                   op |-> "Close", rc |-> ZOK]]
          /\ out' = NoOut
          /\ UNCHANGED conn
     ELSE /\ \E rc \in CloseRc :
               thread' = [thread EXCEPT ![t] =
                  [pc |-> "close_watches", zk |-> zk, watchId |-> NoWatch,
                   op |-> "Close", rc |-> rc]]
          /\ conn' = [conn EXCEPT ![zk].mutex = t, ![zk].handle = "freed"]
          /\ out' = NoOut
  /\ UNCHANGED <<watchConns, watchCounter, watchLoopCounter, loops, chan,
                 rawQueue, panicked, produced, recvd, returned, installed,
                 info>>

\* Close up to zookeeper_close: zk.mutex.Lock(), the test of zk.handle
\* and, when it is not nil, zookeeper_close(zk.handle).  With a nil handle
\* Close returns ZCLOSING (the deferred Unlock releases the mutex).  A
\* caller that finds the mutex taken waits in Lock and goes on from there
\* when the mutex is free.
CloseLock(t, zk) ==
  /\ panicked = NoPanic
  /\ UNCHANGED <<lim, node, retry, writers>>
  /\ conn[zk].visible
  /\ IF thread[t].pc = "close_wait"
     THEN thread[t].zk = zk /\ conn[zk].mutex = 0
     ELSE Calls(t)
  /\ IF conn[zk].mutex # 0
     THEN /\ thread' = [thread EXCEPT ![t] =
                  [pc |-> "close_wait", zk |-> zk, watchId |-> NoWatch,
                   op |-> "Close", rc |-> ZOK]]
          /\ out' = NoOut
          /\ UNCHANGED conn
     ELSE IF conn[zk].handle = "nil"
     THEN /\ Return(t, Ret("Close", ZCLOSING, FALSE))
          /\ UNCHANGED conn
     ELSE /\ \E rc \in CloseRc :
               thread' = [thread EXCEPT ![t] =
                  [pc |-> "close_watches", zk |-> zk, watchId |-> NoWatch,
                   op |-> "Close", rc |-> rc]]
          /\ conn' = [conn EXCEPT ![zk].mutex = t, ![zk].handle = "freed"]
          /\ out' = NoOut
  /\ UNCHANGED <<watchConns, watchCounter, watchLoopCounter, loops, chan,
                 rawQueue, panicked, produced, recvd, returned, installed,
                 info>>

\* zk.closeAllWatches()
CloseWatches(t) ==
  /\ panicked = NoPanic
  /\ UNCHANGED <<lim, node, retry, writers>>
  /\ thread[t].pc = "close_watches"
  /\ closeAllWatches(conn, thread[t].zk)
  /\ Fate(OwnedBy(thread[t].zk), "closed")
  /\ Goto(t, "close_end")
  /\ out' = NoOut
  /\ UNCHANGED <<watchCounter, watchLoopCounter, loops, rawQueue, produced,
                 recvd, returned, installed>>

\* A Close that leaves zk.handle as it is.
CloseEndKeepsHandle(t) ==
  /\ panicked = NoPanic
  /\ UNCHANGED <<lim, node, retry, writers>>
  /\ thread[t].pc = "close_end"
  /\ stopWatchLoop
  /\ conn' = [conn EXCEPT ![thread[t].zk].mutex = 0]
  /\ Return(t, Ret("Close", zkError(thread[t].rc), FALSE))
  /\ UNCHANGED <<watchConns, watchCounter, chan, rawQueue, panicked, produced,
                 recvd, returned, installed, info>>

\* A Close that returns without zk.mutex.Unlock().
CloseEndKeepsMutex(t) ==
  /\ panicked = NoPanic
  /\ UNCHANGED <<lim, node, retry, writers>>
  /\ thread[t].pc = "close_end"
  /\ stopWatchLoop
  /\ conn' = [conn EXCEPT ![thread[t].zk].handle = "nil"]
  /\ Return(t, Ret("Close", zkError(thread[t].rc), FALSE))
  /\ UNCHANGED <<watchConns, watchCounter, chan, rawQueue, panicked, produced,
                 recvd, returned, installed, info>>

\* stopWatchLoop(), zk.handle = nil, the return of zkError(rc, cerr) and
\* the deferred zk.mutex.Unlock().
CloseEnd(t) ==
  /\ panicked = NoPanic
  /\ UNCHANGED <<lim, node, retry, writers>>
  /\ thread[t].pc = "close_end"
  /\ stopWatchLoop
  /\ conn' = [conn EXCEPT ![thread[t].zk].handle = "nil", ![thread[t].zk].mutex = 0]
  /\ Return(t, Ret("Close", zkError(thread[t].rc), FALSE))
  /\ UNCHANGED <<watchConns, watchCounter, chan, rawQueue, panicked, produced,
                 recvd, returned, installed, info>>

\* ----------------------------------------------------------------------
\* RetryChange, and the node it reads and writes.

\* Statuses of the runtime other than the ones RetryChange tests for: the
\* server refuses the client, or zk.handle is nil after Close.
OtherErrors == {ZNOAUTH, ZBADARGUMENTS}

\* Status of zoo_wget in Get.
GetRc == (IF node.exists THEN {ZOK} ELSE {ZNONODE}) \cup OtherErrors

\* Status of zoo_create in Create.
CreateRc == (IF node.exists THEN {ZNODEEXISTS} ELSE {ZOK}) \cup OtherErrors

\* Status of zoo_set2 in Set with the given version.
SetRc(version) ==
  (IF ~node.exists THEN {ZNONODE}
   ELSE IF node.version # version THEN {ZBADVERSION}
   ELSE {ZOK}) \cup OtherErrors

\* RetryChange returns err.
RetryReturn(err) ==
  /\ retry' = [retry EXCEPT !.pc = "idle", !.err = err]
  /\ out' = Ret("RetryChange", err, FALSE)

\* zk.RetryChange(path, flags, acl, changeFunc) is called.
RetryCall(f) ==
  /\ retry.pc = "idle"
  /\ retry.called < MaxRetryCalls
  /\ retry' = [pc |-> "get", f |-> f, oldValue |-> EmptyValue, oldStat |-> NoStat,
               newValue |-> EmptyValue, err |-> ZOK, called |-> retry.called + 1,
               applied |-> 0, writes |-> 0, start |-> node,
               again |-> /\ retry.called > 0
                         /\ f = retry.f
                         /\ retry.err = ZOK
                         /\ out = Ret("RetryChange", ZOK, FALSE)]
  /\ out' = NoOut
  /\ UNCHANGED <<sessionVars, node, writers>>

\* A RetryChange that goes on after any error of Get.
RetryGetGoesOn ==
  /\ retry.pc = "get"
  /\ \E rc \in GetRc :
       /\ retry' = [retry EXCEPT
                      !.pc = "change", !.err = zkError(rc),
                      !.oldValue = IF rc = ZOK THEN node.value ELSE EmptyValue,
                      !.oldStat = IF rc = ZOK THEN node.version ELSE NoStat]
       /\ out' = NoOut
  /\ UNCHANGED <<sessionVars, node, writers>>

\* oldValue, oldStat, err := zk.Get(path), and the test of err.
RetryGet ==
  /\ retry.pc = "get"
  /\ \E rc \in GetRc :
       IF zkError(rc) # ZOK /\ zkError(rc) # ZNONODE
       THEN RetryReturn(zkError(rc))
       ELSE /\ retry' = [retry EXCEPT
                           !.pc = "change", !.err = zkError(rc),
                           !.oldValue = IF rc = ZOK THEN node.value ELSE EmptyValue,
                           !.oldStat = IF rc = ZOK THEN node.version ELSE NoStat]
            /\ out' = NoOut
  /\ UNCHANGED <<sessionVars, node, writers>>

\* A RetryChange without the test newValue == oldValue.
RetryApplyAlwaysSets ==
  /\ retry.pc = "change"
  /\ LET newValue == retry.f[IF retry.oldStat = NoStat THEN NoStat ELSE retry.oldValue]
         applied == [retry EXCEPT
                       !.applied = @ + 1,
                       !.err = IF newValue = ChangeFails THEN ErrChange ELSE ZOK]
     IN IF newValue = ChangeFails
        THEN /\ retry' = [applied EXCEPT !.pc = "idle"]
             /\ out' = Ret("RetryChange", ErrChange, FALSE)
        ELSE IF retry.oldStat = NoStat
        THEN /\ retry' = [applied EXCEPT !.pc = "create", !.newValue = newValue]
             /\ out' = NoOut
        ELSE /\ retry' = [applied EXCEPT !.pc = "set", !.newValue = newValue]
             /\ out' = NoOut
  /\ UNCHANGED <<sessionVars, node, writers>>

\* newValue, err := changeFunc(oldValue, oldStat), the test of err, and
\* the choice between Create, nothing to do, and Set.
RetryApply ==
  /\ retry.pc = "change"
  /\ LET newValue == retry.f[IF retry.oldStat = NoStat THEN NoStat ELSE retry.oldValue]
         applied == [retry EXCEPT
                       !.applied = @ + 1,
                       !.err = IF newValue = ChangeFails THEN ErrChange ELSE ZOK]
     IN IF newValue = ChangeFails
        THEN /\ retry' = [applied EXCEPT !.pc = "idle"]
             /\ out' = Ret("RetryChange", ErrChange, FALSE)
        ELSE IF retry.oldStat = NoStat
        THEN /\ retry' = [applied EXCEPT !.pc = "create", !.newValue = newValue]
             /\ out' = NoOut
        ELSE IF newValue = retry.oldValue
        THEN /\ retry' = [applied EXCEPT !.pc = "idle", !.newValue = newValue]
             /\ out' = Ret("RetryChange", ZOK, FALSE)
        ELSE /\ retry' = [applied EXCEPT !.pc = "set", !.newValue = newValue]
             /\ out' = NoOut
  /\ UNCHANGED <<sessionVars, node, writers>>

\* A RetryChange that creates the node with the value read, not the new one.
RetryCreateOldValue ==
  /\ retry.pc = "create"
  /\ \E rc \in CreateRc :
       LET issued == [retry EXCEPT !.writes = @ + 1, !.err = zkError(rc)] IN
       /\ node' = IF rc = ZOK
                  THEN [exists |-> TRUE, value |-> retry.oldValue, version |-> 0]
                  ELSE node
       /\ IF zkError(rc) = ZOK \/ zkError(rc) # ZNODEEXISTS
          THEN /\ retry' = [issued EXCEPT !.pc = "idle"]
               /\ out' = Ret("RetryChange", zkError(rc), FALSE)
          ELSE /\ retry' = [issued EXCEPT !.pc = "get"]
               /\ out' = NoOut
  /\ UNCHANGED <<sessionVars, writers>>

\* A RetryChange that returns every error of Create.
RetryCreateNoRetry ==
  /\ retry.pc = "create"
  /\ \E rc \in CreateRc :
       LET issued == [retry EXCEPT !.writes = @ + 1, !.err = zkError(rc)] IN
       /\ node' = IF rc = ZOK
                  THEN [exists |-> TRUE, value |-> retry.newValue, version |-> 0]
                  ELSE node
       /\ retry' = [issued EXCEPT !.pc = "idle"]
       /\ out' = Ret("RetryChange", zkError(rc), FALSE)
  /\ UNCHANGED <<sessionVars, writers>>

\* _, err := zk.Create(path, newValue, flags, acl), and the test of err.
RetryCreate ==
  /\ retry.pc = "create"
  /\ \E rc \in CreateRc :
       LET issued == [retry EXCEPT !.writes = @ + 1, !.err = zkError(rc)] IN
       /\ node' = IF rc = ZOK
                  THEN [exists |-> TRUE, value |-> retry.newValue, version |-> 0]
                  ELSE node
       /\ IF zkError(rc) = ZOK \/ zkError(rc) # ZNODEEXISTS
          THEN /\ retry' = [issued EXCEPT !.pc = "idle"]
               /\ out' = Ret("RetryChange", zkError(rc), FALSE)
          ELSE /\ retry' = [issued EXCEPT !.pc = "get"]
               /\ out' = NoOut
  /\ UNCHANGED <<sessionVars, writers>>

\* A RetryChange that gives up when a second Set loses its race.
RetrySetBounded ==
  /\ retry.pc = "set"
  /\ \E rc \in SetRc(retry.oldStat) :
       LET issued == [retry EXCEPT !.writes = @ + 1, !.err = zkError(rc)] IN
       /\ node' = IF rc = ZOK
                  THEN [node EXCEPT !.value = retry.newValue, !.version = @ + 1]
                  ELSE node
       /\ IF \/ zkError(rc) = ZOK
             \/ (zkError(rc) # ZBADVERSION /\ zkError(rc) # ZNONODE)
             \/ retry.writes >= 1
          THEN /\ retry' = [issued EXCEPT !.pc = "idle"]
               /\ out' = Ret("RetryChange", ZOK, FALSE)
          ELSE /\ retry' = [issued EXCEPT !.pc = "get"]
               /\ out' = NoOut
  /\ UNCHANGED <<sessionVars, writers>>

\* A RetryChange that returns every error of Set.
RetrySetNoRetry ==
  /\ retry.pc = "set"
  /\ \E rc \in SetRc(retry.oldStat) :
       LET issued == [retry EXCEPT !.writes = @ + 1, !.err = zkError(rc)] IN
       /\ node' = IF rc = ZOK
                  THEN [node EXCEPT !.value = retry.newValue, !.version = @ + 1]
                  ELSE node
       /\ retry' = [issued EXCEPT !.pc = "idle"]
       /\ out' = Ret("RetryChange", zkError(rc), FALSE)
  /\ UNCHANGED <<sessionVars, writers>>

\* A RetryChange that goes back to the read after every Set.
RetrySetAlwaysRetries ==
  /\ retry.pc = "set"
  /\ \E rc \in SetRc(retry.oldStat) :
       LET issued == [retry EXCEPT !.writes = @ + 1, !.err = zkError(rc)] IN
       /\ node' = IF rc = ZOK
                  THEN [node EXCEPT !.value = retry.newValue, !.version = @ + 1]
                  ELSE node
       /\ retry' = [issued EXCEPT !.pc = "get"]
       /\ out' = NoOut
  /\ UNCHANGED <<sessionVars, writers>>

\* _, err = zk.Set(path, newValue, oldStat.Version()), and the test of err.
RetrySet ==
  /\ retry.pc = "set"
  /\ \E rc \in SetRc(retry.oldStat) :
       LET issued == [retry EXCEPT !.writes = @ + 1, !.err = zkError(rc)] IN
       /\ node' = IF rc = ZOK
                  THEN [node EXCEPT !.value = retry.newValue, !.version = @ + 1]
                  ELSE node
       /\ IF zkError(rc) = ZOK \/ (zkError(rc) # ZBADVERSION /\ zkError(rc) # ZNONODE)
          THEN /\ retry' = [issued EXCEPT !.pc = "idle"]
               /\ out' = Ret("RetryChange", ZOK, FALSE)
          ELSE /\ retry' = [issued EXCEPT !.pc = "get"]
               /\ out' = NoOut
  /\ UNCHANGED <<sessionVars, writers>>

\* Another client creates, sets or deletes the node.
OtherWrite ==
  /\ writers < MaxOtherWrites
  /\ writers' = writers + 1
  /\ \/ /\ ~node.exists
        /\ \E v \in Values : node' = [exists |-> TRUE, value |-> v, version |-> 0]
     \/ /\ node.exists
        /\ \E v \in Values : node' = [node EXCEPT !.value = v, !.version = @ + 1]
     \/ /\ node.exists
        /\ node' = Absent
  /\ out' = NoOut
  /\ UNCHANGED <<sessionVars, retry>>

\* ----------------------------------------------------------------------
\* The specification.

Next ==
  \/ \E t \in Threads, op \in {"Dial", "Redial"} : Dial(t, op)
  \/ \E t \in Threads : DialInit(t)
  \/ \E t \in Threads : DialRun(t)
  \/ \E t \in Threads, zk \in ConnIds, op \in WOps : WStart(t, zk, op)
  \/ \E t \in Threads : WCall(t)
  \/ \E t \in Threads : WForget(t)
  \/ \E t \in Threads, zk \in ConnIds : CloseLock(t, zk)
  \/ \E t \in Threads : CloseWatches(t)
  \/ \E t \in Threads : CloseEnd(t)
  \/ RuntimeNotify
  \/ WatchLoop
  \/ \E w \in AllocIds : Recv(w)

Spec == Init /\ [][Next]_vars

SpecWatch == InitWatch /\ [][Next]_vars

SpecBacklog == InitBacklog /\ [][Next]_vars

\* A goroutine inside Close goes on: it gets zk.mutex when it is free, and
\* closeAllWatches and stopWatchLoop get watchMutex, which no one keeps.
CloseProgress(t) ==
  \/ \E zk \in ConnIds : thread[t].pc = "close_wait" /\ CloseLock(t, zk)
  \/ CloseWatches(t)
  \/ CloseEnd(t)

\* The node before the first call: absent, or created with some value.
NodeStart == {Absent} \cup {[exists |-> TRUE, value |-> v, version |-> 0] : v \in Values}

\* RetryChange on a node that is absent or holds some value, with no other
\* call of the process.
InitRetry ==
  /\ Start(0, 0)
  /\ node \in NodeStart
  /\ retry = RetryIdle
  /\ writers = 0

NextRetry ==
  \/ \E f \in ChangeFuncs : RetryCall(f)
  \/ RetryGet
  \/ RetryApply
  \/ RetryCreate
  \/ RetrySet
  \/ OtherWrite

SpecRetry == InitRetry /\ [][NextRetry]_vars

\* Calls at the path of a node that is absent or holds some value and
\* that other clients write, on sessions that are not closed.
InitNode ==
  /\ StartOf([threads |-> NodeThreads, notifs |-> NodeNotifs, tracked |-> TRUE])
  /\ node \in NodeStart
  /\ retry = RetryIdle
  /\ writers = 0

NextNode ==
  \/ \E t \in Threads, op \in {"Dial", "Redial"} : Dial(t, op)
  \/ \E t \in Threads : DialInit(t)
  \/ \E t \in Threads : DialRun(t)
  \/ \E t \in Threads, zk \in ConnIds, op \in WOps : WStart(t, zk, op)
  \/ \E t \in Threads : WCall(t)
  \/ \E t \in Threads : WForget(t)
  \/ RuntimeNotify
  \/ WatchLoop
  \/ \E w \in AllocIds : Recv(w)
  \/ \E t \in Threads, zk \in ConnIds : Get(t, zk)
  \/ \E t \in Threads, zk \in ConnIds : Children(t, zk)
  \/ \E t \in Threads, zk \in ConnIds : Exists(t, zk)
  \/ OtherWrite

SpecNode == InitNode /\ [][NextNode]_vars

\* The goroutine inside RetryChange goes on: Get, changeFunc, Create and
\* Set return.
RetryProgress == RetryGet \/ RetryApply \/ RetryCreate \/ RetrySet

SpecRetryLive == InitRetry /\ [][NextRetry]_vars /\ WF_vars(RetryProgress)

SpecLive == Init /\ [][Next]_vars /\ \A t \in Threads : WF_vars(CloseProgress(t))

TypeOK ==
  /\ watchCounter \in 0 .. MaxWatches
  /\ DOMAIN watchConns \subseteq AllocIds
  /\ DOMAIN chan = AllocIds
  /\ produced \in 0 .. lim.notifs
  /\ Len(rawQueue) <= MaxPending

\* ----------------------------------------------------------------------
\* Properties.

\* The channels GetW, ChildrenW and ExistsW returned to their callers.
OneShotStreams == { w \in returned : info[w].kind = "watch" }

\* The number of events sendEvent has put into channel w.
Sent(w) == recvd[w].n + Len(chan[w].buf)

\* The watches registered and not since delivered, forgotten or closed.
Live == { w \in DOMAIN info : info[w].fate = "live" }

\* The step is a receive on channel w.
Receives(w) == out'.kind = "recv" /\ out'.w = w

\* C1: a channel returned by GetW, ChildrenW or ExistsW gets at most one
\* event from the dispatcher and is closed by the step that sends it (or,
\* with no event, by Close of its session); once it is closed and drained a
\* receive proceeds at once and yields the closed sentinel
\* (EVENT_CLOSED, STATE_CLOSED), not an event and not a panic.
C1_OneShotStream ==
  /\ [](\A w \in OneShotStreams :
          /\ Sent(w) <= 1
          /\ Sent(w) = 1 <=> info[w].fate = "delivered"
          /\ Sent(w) = 1 => chan[w].closed
          /\ chan[w].closed => info[w].fate \in {"delivered", "closed"}
          /\ (chan[w].closed /\ chan[w].buf = << >> /\ panicked = NoPanic)
                => ENABLED Recv(w))
  /\ [][\A w \in OneShotStreams :
          (chan[w].closed /\ chan[w].buf = << >> /\ Receives(w))
            => /\ out'.event = ClosedEvent
               /\ ~out'.ok
               /\ recvd' = recvd
               /\ panicked' = NoPanic]_vars

\* A one-shot channel has given its event and then the sentinel.
C1_Witness ==
  \E w \in OneShotStreams :
    /\ recvd[w].n = 1
    /\ info[w].fate = "delivered"
    /\ out = Got(w, ClosedEvent, FALSE)

\* C2: CountPendingWatches() is the number of watches registered and not
\* since delivered as a one-shot event, forgotten or closed with their
\* session; a step that sends to a one-shot channel lowers it by one, a
\* step that sends to a session channel leaves it as it is.
C2_PendingCount ==
  /\ [](CountPendingWatches = Cardinality(Live) /\ DOMAIN watchConns = Live)
  /\ [][\A w \in DOMAIN chan :
          Len(chan'[w].buf) > Len(chan[w].buf)
            => CountPendingWatches' =
                 CountPendingWatches - (IF info[w].kind = "watch" THEN 1 ELSE 0)]_vars

\* A one-shot watch delivered, another forgotten, an event sent to the
\* session channel, and the session watch the only one left.
C2_Witness ==
  /\ \E w \in DOMAIN info : info[w].kind = "watch" /\ info[w].fate = "delivered"
  /\ \E w \in DOMAIN info : info[w].fate = "forgotten"
  /\ \E w \in Live : info[w].kind = "session" /\ Sent(w) = 1
  /\ CountPendingWatches = 1

\* The watches Conn zk owns.
Owned(zk) == { w \in Live : info[w].owner = zk }

\* C3: the closeAllWatches step of Close on a session removes from the
\* registry the watches that session owns, its session watch among them,
\* and closes their channels; the entries, channels and Conns of other
\* sessions are as before, and the count drops by the number it owned.
C3_CloseFrame ==
  [][\A t \in Threads :
       (thread[t].pc = "close_watches" /\ thread'[t].pc = "close_end") =>
         LET zk == thread[t].zk IN
           /\ conn[zk].sessionWatchId \in Owned(zk)
           /\ DOMAIN watchConns' = (DOMAIN watchConns) \ Owned(zk)
           /\ \A w \in Owned(zk) : ~chan[w].closed /\ chan'[w].closed
           /\ \A w \in (DOMAIN chan) \ Owned(zk) : chan'[w] = chan[w]
           /\ \A w \in DOMAIN watchConns' : watchConns'[w] = watchConns[w]
           /\ \A c \in ConnIds \ {zk} : conn'[c] = conn[c]
           /\ CountPendingWatches' = CountPendingWatches - Cardinality(Owned(zk))
           /\ panicked' = NoPanic]_vars

\* Close has just closed the two watches of one session while another
\* session has its watch.
C3_Witness ==
  \E t \in Threads :
    /\ thread[t].pc = "close_end"
    /\ Cardinality({ w \in DOMAIN info : info[w].owner = thread[t].zk
                                          /\ info[w].fate = "closed" }) = 2
    /\ \E w \in Live : info[w].owner # thread[t].zk

\* C4: when the native call of GetW, ChildrenW or ExistsW fails, the
\* operation forgets its watch and returns the error and no channel: the
\* count, raised by one when the watch was registered, is lowered by one;
\* the channel of a forgotten watch is never closed, sent to or returned;
\* and a notification that carries the forgotten id changes nothing.
C4_FailedWatchForgotten ==
  /\ [](\A w \in DOMAIN info :
          info[w].fate = "forgotten"
            => /\ w \notin DOMAIN watchConns
               /\ w \notin returned
               /\ ~chan[w].closed
               /\ Sent(w) = 0)
  /\ [][\A t \in Threads :
          /\ (thread[t].pc = "idle" /\ thread'[t].pc = "w_call")
               => CountPendingWatches' = CountPendingWatches + 1
          /\ (thread[t].pc = "w_call" /\ thread'[t].pc = "w_forget")
               => /\ ~Succeeds(thread[t].op, thread'[t].rc)
                  /\ CountPendingWatches' = CountPendingWatches
          /\ (thread[t].pc = "w_forget" /\ thread'[t].pc = "idle")
               => /\ out' = Ret(thread[t].op, thread[t].rc, FALSE)
                  /\ thread[t].rc # ZOK
                  /\ thread[t].watchId \notin DOMAIN watchConns'
                  /\ CountPendingWatches' = CountPendingWatches
                       - (IF thread[t].watchId \in DOMAIN watchConns THEN 1 ELSE 0)
                  /\ chan' = chan
                  /\ returned' = returned]_vars
  /\ [][\A w \in DOMAIN info, k \in RawKinds :
          (info[w].fate = "forgotten" /\ Dispatch(w, k))
            => /\ chan' = chan
               /\ watchConns' = watchConns
               /\ panicked' = NoPanic]_vars

\* A notification has come for the id of a watch that was forgotten.
C4_Witness ==
  \E w \in DOMAIN info :
    info[w].fate = "forgotten" /\ info[w].dropped = "absent"

TransientStates == {STATE_CONNECTING, STATE_ASSOCIATING, STATE_CONNECTED}

FatalStates == {STATE_EXPIRED_SESSION, STATE_AUTH_FAILED}

NodeEvent == <<EVENT_CHANGED, STATE_CONNECTED>>

\* The one-shot watches the registry holds.
LiveOneShot == { w \in Live : info[w].kind = "watch" }

\* C5: a step of the dispatcher on a session notification with state
\* connecting, associating or connected for the id of a registered one-shot
\* watch changes no channel, no registry entry and no Conn; the watch a
\* notification was so dropped for still gets its node event when the
\* runtime sends one.
C5_TransientDropped ==
  /\ [][\A w \in LiveOneShot, s \in TransientStates :
          Dispatch(w, <<EVENT_SESSION, s>>)
            => /\ chan' = chan
               /\ watchConns' = watchConns
               /\ conn' = conn
               /\ CountPendingWatches' = CountPendingWatches
               /\ info'[w].fate = "live"
               /\ panicked' = NoPanic]_vars
  /\ [][\A w \in LiveOneShot :
          (info[w].dropped = "filtered" /\ Dispatch(w, NodeEvent))
            => chan'[w].buf = << RawEvent(NodeEvent, Head(rawQueue)) >>]_vars

\* A one-shot watch has got its node event after a session notification
\* for it was dropped.
C5_Witness ==
  \E w \in OneShotStreams :
    /\ info[w].dropped = "filtered"
    /\ info[w].fate = "delivered"
    /\ Len(chan[w].buf) = 1
    /\ chan[w].buf[1].Type = EVENT_CHANGED

\* C6: a step of the dispatcher on a session notification with state
\* expired or auth-failed for the id of a registered one-shot watch puts
\* the event into that channel, closes it and removes that watch and no
\* other from the registry; the session watch of the Conn stays, and for
\* the id of the session watch itself the step removes and closes nothing.
C6_FatalDelivered ==
  [][\A w \in DOMAIN watchConns, s \in FatalStates :
       Dispatch(w, <<EVENT_SESSION, s>>) =>
         LET event == RawEvent(<<EVENT_SESSION, s>>, Head(rawQueue))
             sw == conn[info[w].owner].sessionWatchId
         IN IF info[w].kind = "watch"
            THEN /\ chan'[w].buf = Append(chan[w].buf, event)
                 /\ Len(chan'[w].buf) = 1
                 /\ chan'[w].closed
                 /\ DOMAIN watchConns' = (DOMAIN watchConns) \ {w}
                 /\ \A v \in (DOMAIN chan) \ {w} : chan'[v] = chan[v]
                 /\ panicked' = NoPanic
            ELSE /\ w = sw
                 /\ watchConns' = watchConns
                 /\ ~chan'[w].closed]_vars

\* The consumer of a one-shot channel has read an expired or auth-failed
\* session event from it; the channel is closed, the watch is gone and the
\* session watch of its Conn is registered.
C6_Witness ==
  \E w \in OneShotStreams :
    /\ out.kind = "recv" /\ out.w = w /\ out.ok
    /\ out.event.Type = EVENT_SESSION
    /\ out.event.State \in FatalStates
    /\ chan[w].closed
    /\ w \notin DOMAIN watchConns
    /\ conn[info[w].owner].sessionWatchId \in DOMAIN watchConns

\* C7: while the handle of a Conn is the one zookeeper_init returned and
\* Close has not been called on it, its session watch is in the registry
\* with an open channel; a step of the dispatcher for the id of a registered
\* session watch, whatever the type and state, appends the event to the
\* session channel (when it has room) and removes and closes nothing.
C7_SessionWatchPersists ==
  /\ [](\A zk \in ConnIds :
          conn[zk].handle = "live"
            => LET sw == conn[zk].sessionWatchId IN
                 /\ sw \in DOMAIN watchConns
                 /\ watchConns[sw] = zk
                 /\ info[sw].kind = "session"
                 /\ ~chan[sw].closed)
  /\ [][\A w \in DOMAIN watchConns, k \in RawKinds :
          (info[w].kind = "session" /\ Len(chan[w].buf) < chan[w].cap
             /\ Dispatch(w, k))
            => /\ chan'[w].buf = Append(chan[w].buf, RawEvent(k, Head(rawQueue)))
               /\ ~chan'[w].closed
               /\ watchConns' = watchConns
               /\ panicked' = NoPanic]_vars

\* The session channel of an open Conn holds an expired-session event and,
\* behind it, a later event.
C7_Witness ==
  \E zk \in ConnIds :
    /\ conn[zk].handle = "live"
    /\ LET buf == chan[conn[zk].sessionWatchId].buf IN
         /\ Len(buf) = 2
         /\ buf[1].State = STATE_EXPIRED_SESSION
         /\ conn[zk].sessionWatchId \in DOMAIN watchConns

\* The channels dial returned.
SessionStreams == { w \in DOMAIN info : info[w].kind = "session" }

\* The events are in the order of production.
InOrder(buf) == \A i, j \in 1 .. Len(buf) : i < j => buf[i].seq < buf[j].seq

\* C8: the events in a session channel are in the order in which the
\* runtime produced their notifications and later than the last event read
\* from it, and a receive yields the oldest of them; a step of the
\* dispatcher takes the oldest raw notification and no other, and puts at
\* most one event, that notification's, into at most one channel.
C8_SessionOrder ==
  /\ [](\A w \in SessionStreams :
          /\ InOrder(chan[w].buf)
          /\ chan[w].buf # << >> => recvd[w].seq < chan[w].buf[1].seq)
  /\ [][\A w \in SessionStreams :
          (Receives(w) /\ out'.ok)
            => /\ out'.event = chan[w].buf[1]
               /\ out'.event.seq > recvd[w].seq
               /\ chan'[w].buf = Tail(chan[w].buf)]_vars
  /\ [][rawQueue' # rawQueue /\ Len(rawQueue') <= Len(rawQueue)
          => /\ rawQueue' = Tail(rawQueue)
             /\ Cardinality({ w \in DOMAIN chan : chan'[w] # chan[w] }) <= 1
             /\ \A w \in DOMAIN chan :
                  chan'[w] # chan[w]
                    => /\ Len(chan'[w].buf) = Len(chan[w].buf) + 1
                       /\ chan'[w].buf[Len(chan'[w].buf)].seq = Head(rawQueue)]_vars

\* The consumer of a session channel has read two events, the second one
\* produced second.
C8_Witness ==
  \E w \in SessionStreams :
    /\ recvd[w].n = 2
    /\ out.kind = "recv" /\ out.w = w /\ out.ok
    /\ out.event.seq = 2

\* The notification passes the lookup and the filter of sendEvent.
Passes(w, k) ==
  /\ w \in DOMAIN watchConns
  /\ ~(k[1] = EVENT_SESSION /\ info[w].kind = "watch" /\ k[2] \in TransientStates)

\* C9: a step of the dispatcher on a notification that passes the lookup
\* and the filter either appends the event to the channel or, when the
\* channel holds as many events as its capacity, panics and leaves the
\* channels as they are; after a panic no step is taken; and with a raw
\* notification at hand the step is enabled whatever the channels hold.
C9_FullBufferPanics ==
  /\ [][\A w \in DOMAIN watchConns, k \in RawKinds :
          (Passes(w, k) /\ Dispatch(w, k))
            => IF Len(chan[w].buf) >= chan[w].cap
               THEN /\ panicked' # NoPanic
                    /\ chan' = chan
               ELSE /\ chan'[w].buf = Append(chan[w].buf, RawEvent(k, Head(rawQueue)))
                    /\ panicked' = NoPanic]_vars
  /\ [](panicked # NoPanic => ~ENABLED Next)
  /\ []((loops > 0 /\ rawQueue # << >> /\ panicked = NoPanic)
          => \A w \in Notifiable, k \in RawKinds : ENABLED Dispatch(w, k))

\* The dispatcher found the session channel full and panicked.
C9_Witness == panicked = "Session event channel buffer is full"

\* C10: a session channel has capacity 32 and a channel made by GetW,
\* ChildrenW or ExistsW capacity 1, and holds no more than one event.
C10_StreamCapacity ==
  \A w \in DOMAIN chan :
    IF info[w].kind = "session"
    THEN chan[w].cap = SessionBuf
    ELSE chan[w].cap = WatchBuf /\ Len(chan[w].buf) <= 1

\* C11: a step of the dispatcher on a notification whose watch id is not
\* in the registry (its watch was delivered, forgotten or closed with its
\* session) takes the notification and changes no registry entry, no
\* channel and no Conn, and does not panic.
C11_AbsentDropped ==
  [][\A w \in AllocIds \ DOMAIN watchConns, k \in RawKinds :
       Dispatch(w, k)
         => /\ watchConns' = watchConns
            /\ conn' = conn
            /\ chan' = chan
            /\ CountPendingWatches' = CountPendingWatches
            /\ rawQueue' = Tail(rawQueue)
            /\ panicked' = NoPanic]_vars

\* A notification has come for the id of a one-shot watch after its event
\* was delivered.
C11_Witness ==
  \E w \in DOMAIN info :
    /\ info[w].fate = "delivered"
    /\ info[w].dropped = "absent"
    /\ w \notin DOMAIN watchConns
    /\ Sent(w) = 1

\* The Conns whose Close has run to its end.
ClosedConns == { zk \in ConnIds : conn[zk].visible /\ conn[zk].handle = "nil" }

\* C12: a Close that returns after the native close returns the status of
\* the native close; a Close of a Conn that a Close has already closed
\* is enabled and returns ZCLOSING, and changes no Conn, no registry entry,
\* no channel and neither the dispatcher nor its counter.
C12_SecondClose ==
  /\ [][\A t \in Threads :
          (thread[t].pc = "close_end" /\ thread'[t].pc = "idle")
            => out' = Ret("Close", thread[t].rc, FALSE)]_vars
  /\ [][\A t \in Threads, zk \in ClosedConns :
          CloseLock(t, zk)
            => /\ out' = Ret("Close", ZCLOSING, FALSE)
               /\ thread'[t].pc = "idle"
               /\ conn' = conn
               /\ watchConns' = watchConns
               /\ chan' = chan
               /\ watchLoopCounter' = watchLoopCounter
               /\ loops' = loops]_vars
  /\ [](\A t \in Threads, zk \in ClosedConns :
          (panicked = NoPanic /\ Calls(t)) => ENABLED CloseLock(t, zk))

\* The second Close of a Conn has returned ZCLOSING.
C12_Witness ==
  /\ out = Ret("Close", ZCLOSING, FALSE)
  /\ ClosedConns # {}

\* The goroutines past the native close of Conn zk and still in Close.
Closers(zk) ==
  { t \in Threads : thread[t].pc \in {"close_watches", "close_end"}
                      /\ thread[t].zk = zk }

InClose(t) == thread[t].pc \in {"close_wait", "close_watches", "close_end"}

\* At most one goroutine is past the native close of a Conn, it holds
\* zk.mutex, and the handle is the closed one exactly meanwhile.
OneCloser ==
  \A zk \in ConnIds :
    /\ Cardinality(Closers(zk)) <= 1
    /\ conn[zk].handle = "freed" <=> Closers(zk) # {}
    /\ Closers(zk) # {} => conn[zk].mutex \in Closers(zk)

\* What stopWatchLoop makes of the counter.
Stopped(n) == IF n = 1 THEN 1 ELSE n - 1

\* The steps of Close: the native close is called on a live handle only
\* and never again for that Conn; the Close that called it ends with the
\* counter lowered (by one when exact, as stopWatchLoop lowers it
\* otherwise); a Close that waited for zk.mutex returns ZCLOSING.
CloseSteps(exact) ==
  /\ \A t \in Threads :
       /\ (thread[t].pc # "close_watches" /\ thread'[t].pc = "close_watches")
            => conn[thread'[t].zk].handle = "live"
       /\ (thread[t].pc = "close_end" /\ thread'[t].pc = "idle")
            => watchLoopCounter' = IF exact THEN watchLoopCounter - 1
                                   ELSE Stopped(watchLoopCounter)
       /\ (thread[t].pc = "close_wait" /\ thread'[t].pc # "close_wait")
            => /\ thread'[t].pc = "idle"
               /\ out' = Ret("Close", ZCLOSING, FALSE)
               /\ watchLoopCounter' = watchLoopCounter
               /\ watchConns' = watchConns
  /\ \A zk \in ConnIds :
       (conn[zk].visible /\ conn[zk].handle # "live") => conn'[zk].handle # "live"

AllReturn == \A t \in Threads : InClose(t) ~> (thread[t].pc = "idle")

\* C13 (as amended): of the Close calls racing on one Conn one calls the
\* native close, closes the watches and runs stopWatchLoop once, which
\* lowers the counter by one unless that would make it zero; each of the
\* others returns ZCLOSING; and all of them return.
C13_RacingClose ==
  /\ []OneCloser
  /\ [][CloseSteps(FALSE)]_vars
  /\ AllReturn

\* C13 as stated: the Close that called the native close lowers the
\* counter by one.
C13_Original ==
  /\ []OneCloser
  /\ [][CloseSteps(TRUE)]_vars
  /\ AllReturn

\* One goroutine is at the end of Close while another waits in Close of
\* the same Conn for zk.mutex.
C13_Witness ==
  \E t, u \in Threads :
    /\ thread[t].pc = "close_end"
    /\ thread[u].pc = "close_wait"
    /\ thread[u].zk = thread[t].zk

\* dial got a handle from zookeeper_init for Conn zk.
DialSucceeded(zk) ==
  /\ conn[zk].made
  /\ conn[zk].sessionWatchId \in installed
  /\ info[conn[zk].sessionWatchId].owner = zk

\* A Close of Conn zk has closed its watches and returned.
CloseDone(zk) ==
  /\ DialSucceeded(zk)
  /\ info[conn[zk].sessionWatchId].fate = "closed"
  /\ \A t \in Threads : ~(thread[t].pc = "close_end" /\ thread[t].zk = zk)

\* C14: zk.handle is not nil exactly from the dial that got a handle to
\* the end of the first Close; it is set by dial before the Conn is
\* returned, given to zookeeper_close and set to nil by Close, once each,
\* and no other step changes it.
C14_HandleSlot ==
  /\ [](\A zk \in ConnIds :
          conn[zk].handle # "nil" <=> (DialSucceeded(zk) /\ ~CloseDone(zk)))
  /\ [][\A zk \in ConnIds :
          conn'[zk].handle # conn[zk].handle
            => \/ /\ conn[zk].handle = "nil" /\ conn'[zk].handle = "live"
                  /\ ~conn[zk].visible
                  /\ \E t \in Threads : thread[t].pc = "dial_init" /\ thread[t].zk = zk
               \/ /\ conn[zk].handle = "live" /\ conn'[zk].handle = "freed"
                  /\ \E t \in Threads : thread[t].pc # "close_watches"
                        /\ thread'[t].pc = "close_watches" /\ thread'[t].zk = zk
               \/ /\ conn[zk].handle = "freed" /\ conn'[zk].handle = "nil"
                  /\ \E t \in Threads : thread[t].pc = "close_end" /\ thread[t].zk = zk]_vars
  /\ [][\A zk \in ConnIds :
          (conn[zk].visible /\ conn[zk].handle = "nil") => conn'[zk].handle = "nil"]_vars

\* The first Close of a Conn has just returned and set its handle to nil,
\* after an operation on the Conn.
C14_Witness ==
  /\ out.kind = "ret" /\ out.op = "Close" /\ out.err # ZCLOSING
  /\ \E zk \in ClosedConns :
       \E w \in DOMAIN info : info[w].owner = zk /\ info[w].kind = "watch"

WatchIds == 0 .. (MaxWatches - 1)

\* Close of the Conn of watch w is before its closeAllWatches.
BeingClosed(w) ==
  /\ w \in DOMAIN watchConns
  /\ \E t \in Threads : thread[t].pc = "close_watches" /\ thread[t].zk = watchConns[w]

StreamClosed(w) == w \in DOMAIN chan /\ chan[w].closed

\* The W call of watch w failed: forgetWatch removed it and no caller got
\* its channel.
Forgotten(w) == w \in DOMAIN info /\ info[w].fate = "forgotten"

DialCreates(t) == thread[t].pc = "idle" /\ thread'[t].pc = "dial_init"

\* The step is dial's return with no handle from zookeeper_init.
DialFails(t) == thread[t].pc = "dial_init" /\ thread'[t].pc = "idle"

\* C17: dial registers one watch, the session watch, and, when
\* zookeeper_init gives no handle, returns an error and no channel, removes
\* that watch and closes its channel, so that the registry is as before
\* the call; the Conn is never handed out and has no handle; neither step
\* changes the dispatcher or its counter.
C17_DialFailure ==
  /\ [][\A t \in Threads :
          /\ DialCreates(t)
               => /\ watchConns' = watchConns @@ (thread'[t].watchId :> thread'[t].zk)
                  /\ thread'[t].watchId \notin DOMAIN watchConns
                  /\ CountPendingWatches' = CountPendingWatches + 1
                  /\ UNCHANGED <<loops, watchLoopCounter, returned>>
          /\ DialFails(t)
               => /\ out' = Ret(thread[t].op, ZSYSTEMERROR, FALSE)
                  /\ out'.err # ZOK
                  /\ thread[t].watchId \in DOMAIN watchConns
                  /\ watchConns' = MapDelete(watchConns, {thread[t].watchId})
                  /\ CountPendingWatches' = CountPendingWatches - 1
                  /\ chan'[thread[t].watchId].closed
                  /\ chan'[thread[t].watchId].buf = << >>
                  /\ \A w \in AllocIds \ {thread[t].watchId} : chan'[w] = chan[w]
                  /\ conn'[thread[t].zk].handle = "nil"
                  /\ ~conn'[thread[t].zk].visible
                  /\ conn'[thread[t].zk].watchChannels = {}
                  /\ UNCHANGED <<loops, watchLoopCounter, returned, installed>>]_vars
  /\ [](\A zk \in ConnIds : conn[zk].visible => DialSucceeded(zk))

\* A Redial has failed while the Conn of an earlier dial is open.
C17_Witness ==
  /\ out = Ret("Redial", ZSYSTEMERROR, FALSE)
  /\ \E zk \in ConnIds : conn[zk].visible /\ conn[zk].handle = "live"
  /\ \E w \in SessionStreams :
       /\ info[w].fate = "closed"
       /\ w \notin installed
       /\ chan[w].closed
  /\ watchLoopCounter = 1
  /\ CountPendingWatches = 1

\* C18: there is at most one dispatcher goroutine, and there is one exactly
\* when a dial has succeeded; it is started by the return of a successful
\* dial when there is none, and no step stops it.
C18_OneDispatcher ==
  /\ [](loops \in {0, 1})
  /\ [](loops = 1 <=> \E zk \in ConnIds : conn[zk].visible)
  /\ [][/\ loops' >= loops
         /\ loops' # loops
              => /\ loops = 0
                 /\ \E t \in Threads :
                      /\ thread[t].pc = "dial_run"
                      /\ out' = Ret(thread[t].op, ZOK, TRUE)]_vars

\* The Conns that are open: dialled and not closed.
OpenConns == { zk \in ConnIds : conn[zk].visible /\ conn[zk].handle # "nil" }

\* A dial succeeds after the only open Conn was closed, with the one
\* dispatcher.
C18_Witness ==
  /\ loops = 1
  /\ ClosedConns # {}
  /\ Cardinality(OpenConns) = 1
  /\ out.kind = "ret" /\ out.op \in {"Dial", "Redial"} /\ out.err = ZOK

\* C19 as stated: the counter is the number of open Conns.
C19_Original == watchLoopCounter = Cardinality(OpenConns)

\* C19: the counter is never below the number of open Conns and never
\* below one once a dial has succeeded; the return of a successful dial
\* raises it by one; the end of the Close that closed the handle lowers it
\* by one, except from one, where it stays; no other step changes it.
C19_RefCount ==
  /\ [](watchLoopCounter >= Cardinality(OpenConns))
  /\ []((\E zk \in ConnIds : conn[zk].visible) => watchLoopCounter >= 1)
  /\ [][\A t \in Threads :
          /\ (thread[t].pc = "dial_run" /\ thread'[t].pc = "idle")
               => watchLoopCounter' = watchLoopCounter + 1
          /\ (thread[t].pc = "close_end" /\ thread'[t].pc = "idle")
               => watchLoopCounter' = Stopped(watchLoopCounter)]_vars
  /\ [][watchLoopCounter' # watchLoopCounter
          => \E t \in Threads :
               /\ thread[t].pc \in {"dial_run", "close_end"}
               /\ thread'[t].pc = "idle"]_vars

\* One Conn is open after another was closed, and the counter is two.
C19_Witness ==
  /\ Cardinality(OpenConns) = 1
  /\ ClosedConns # {}
  /\ watchLoopCounter = 2

\* What changeFunc gives for the values RetryChange has read.
ChangeResult == retry.f[IF retry.oldStat = NoStat THEN NoStat ELSE retry.oldValue]

\* The step is RetryChange's return.
RetryReturns == retry.pc # "idle" /\ retry'.pc = "idle"

\* C20: when Get fails with an error other than ZNONODE, RetryChange
\* returns that error without calling changeFunc, and otherwise goes on
\* with what Get read; when changeFunc returns an error, RetryChange
\* returns it and does not go back to Get; neither return issues a Create
\* or a Set or changes the node, and no Create or Set follows a changeFunc
\* that failed.
C20_ErrorsReturned ==
  /\ [][ /\ (retry.pc = "get" /\ RetryReturns)
              => /\ out'.kind = "ret" /\ out'.op = "RetryChange"
                 /\ out'.err \in OtherErrors
                 /\ node' = node
                 /\ retry'.applied = retry.applied
                 /\ retry'.writes = retry.writes
                 /\ (retry.applied = 0 => retry'.writes = 0)
         /\ (retry.pc = "get" /\ retry'.pc # retry.pc /\ ~RetryReturns)
              => /\ retry'.pc = "change"
                 /\ retry'.oldStat = IF node.exists THEN node.version ELSE NoStat
                 /\ retry'.oldValue = IF node.exists THEN node.value ELSE EmptyValue
                 /\ retry'.applied = retry.applied
         /\ (retry.pc = "change" /\ ChangeResult = ChangeFails /\ retry' # retry)
              => /\ RetryReturns
                 /\ out' = Ret("RetryChange", ErrChange, FALSE)
                 /\ node' = node
                 /\ retry'.applied = retry.applied + 1
                 /\ retry'.writes = retry.writes
         /\ (RetryReturns /\ out'.err = ErrChange)
              => retry.pc = "change" /\ ChangeResult = ChangeFails]_vars
  /\ [](retry.pc \in {"create", "set"}
          => ChangeResult # ChangeFails /\ ChangeResult = retry.newValue)

\* changeFunc has failed on the value read after a Set lost the race to
\* another writer.
C20_Witness ==
  /\ out = Ret("RetryChange", ErrChange, FALSE)
  /\ retry.pc = "idle"
  /\ retry.applied = 2
  /\ retry.writes = 1
  /\ node.exists
  /\ node.value = retry.oldValue

\* C21: RetryChange calls Create exactly when Get found no node and
\* changeFunc gave a value, with that value; when the node is created it
\* holds that value and RetryChange returns nil; when the node exists by
\* then, RetryChange goes back to Get and the node is as it was; on any
\* other error of Create it returns that error and the node is as it was.
C21_CreatePath ==
  /\ [](retry.pc = "create" => retry.oldStat = NoStat /\ retry.oldValue = EmptyValue)
  /\ [][ /\ (retry.pc = "change" /\ retry' # retry /\ ChangeResult # ChangeFails)
              => (retry'.pc = "create" <=> retry.oldStat = NoStat)
         /\ (retry.pc = "change" /\ retry'.pc = "create")
              => retry'.newValue = ChangeResult /\ node' = node
         /\ (retry.pc = "create" /\ retry' # retry)
              => /\ retry'.writes = retry.writes + 1
                 /\ retry'.applied = retry.applied
                 /\ IF retry'.pc = "get"
                    THEN node.exists /\ node' = node /\ out' = NoOut
                    ELSE /\ RetryReturns
                         /\ out'.kind = "ret" /\ out'.op = "RetryChange"
                         /\ IF out'.err = ZOK
                            THEN /\ ~node.exists
                                 /\ node' = [exists |-> TRUE, value |-> retry.newValue,
                                              version |-> 0]
                            ELSE out'.err \in OtherErrors /\ node' = node ]_vars

\* Create lost the race to another client, which then deleted the node;
\* the second Create of the call made the node.
C21_Witness ==
  /\ out = Ret("RetryChange", ZOK, FALSE)
  /\ retry.pc = "idle"
  /\ retry.oldStat = NoStat
  /\ retry.applied = 2
  /\ retry.writes = 2
  /\ node = [exists |-> TRUE, value |-> retry.newValue, version |-> 0]

\* The statuses of a lost race.
RaceErrors == {ZBADVERSION, ZNONODE, ZNODEEXISTS}

\* RetryChange is back at Get after a Create or a Set lost its race.
Restarted == retry.pc = "get" /\ retry.writes > 0

\* C22: a Set that fails with ZBADVERSION or ZNONODE (the node was changed
\* or deleted since Get) leaves the node as it is and sends RetryChange
\* back to Get, and nothing else does so from Set; Get then reads the node
\* as it is now and changeFunc is called with that, once per round and
\* before the next Create or Set; RetryChange never returns ZBADVERSION,
\* ZNONODE or ZNODEEXISTS; a restarted RetryChange calls changeFunc again
\* unless Get fails.
C22_SetRetry ==
  /\ [][ /\ (retry.pc = "set" /\ retry' # retry)
              => /\ retry'.writes = retry.writes + 1
                 /\ retry'.applied = retry.applied
                 /\ retry'.pc = "get" <=> retry'.err \in {ZBADVERSION, ZNONODE}
                 /\ retry'.err = ZNONODE <=> (~node.exists /\ retry'.pc = "get")
                 /\ retry'.err = ZBADVERSION
                      <=> (node.exists /\ node.version # retry.oldStat /\ retry'.pc = "get")
                 /\ retry'.pc = "get" => (node' = node /\ out' = NoOut)
         /\ (Restarted /\ retry'.pc = "change")
              => /\ retry'.oldStat = IF node.exists THEN node.version ELSE NoStat
                 /\ retry'.oldValue = IF node.exists THEN node.value ELSE EmptyValue
         /\ (retry.pc = "change" /\ retry' # retry)
              => /\ retry'.applied = retry.applied + 1
                 /\ ChangeResult # ChangeFails => retry'.newValue = ChangeResult ]_vars
  /\ [](retry.pc \in {"get", "change"} => retry.applied = retry.writes)
  /\ [](retry.pc \in {"create", "set"} => retry.applied = retry.writes + 1)
  /\ [](out.kind = "ret" /\ out.op = "RetryChange" => out.err \notin RaceErrors)
  /\ Restarted ~> (retry.pc = "idle" \/ retry.applied = retry.writes + 1)

\* Set lost the race to another client's Set; changeFunc was called again
\* with the value that client wrote, and the second Set was applied.
C22_Witness ==
  /\ out = Ret("RetryChange", ZOK, FALSE)
  /\ retry.err = ZOK
  /\ retry.applied = 2
  /\ retry.writes = 2
  /\ retry.oldStat = 1
  /\ node = [exists |-> TRUE, value |-> retry.newValue, version |-> 2]
  /\ retry.newValue = retry.f[retry.oldValue]
  /\ retry.newValue # retry.oldValue

\* C23 as stated: when Set fails with an error other than ZBADVERSION and
\* ZNONODE, RetryChange returns that error; it returns nil only when the
\* node was written or nothing had to be written.
C23_SetErrorReturned ==
  [][(retry.pc = "set" /\ retry' # retry /\ retry'.err \in OtherErrors)
       => out' = Ret("RetryChange", retry'.err, FALSE)]_vars

\* C24: when Get read the node and changeFunc gives the value read,
\* RetryChange returns nil at once, with no Create and no Set, and Set is
\* called only for a value other than the one read; a call that so
\* returns in its first round has issued no write, and with no other
\* writer the node has the value and the version it had when the call was
\* made.
C24_NothingToDo ==
  /\ [][ /\ (retry.pc = "change" /\ retry' # retry
                /\ retry.oldStat # NoStat /\ ChangeResult = retry.oldValue)
              => /\ RetryReturns
                 /\ out' = Ret("RetryChange", ZOK, FALSE)
                 /\ node' = node
                 /\ retry'.writes = retry.writes
         /\ (retry.pc = "change" /\ retry'.pc = "set")
              => ChangeResult # retry.oldValue
         /\ node' # node
              => (retry.pc \in {"create", "set"} \/ writers' # writers) ]_vars
  /\ []((retry.pc = "idle" /\ retry.called > 0 /\ retry.writes = 0 /\ writers = 0)
          => node = retry.start)
  /\ [](retry.pc = "set" => retry.newValue # retry.oldValue /\ retry.oldStat # NoStat)

\* The call found the node with a value that changeFunc keeps, and
\* returned nil; the node is at its first version.
C24_Witness ==
  /\ out = Ret("RetryChange", ZOK, FALSE)
  /\ retry.pc = "idle"
  /\ retry.applied = 1
  /\ retry.writes = 0
  /\ retry.oldStat = 0
  /\ retry.oldValue # EmptyValue
  /\ retry.f[retry.oldValue] = retry.oldValue
  /\ writers = 0
  /\ node = [exists |-> TRUE, value |-> retry.oldValue, version |-> 0]

\* f(f(x)) = f(x) wherever f gives a value.
Idempotent(f) == \A x \in DOMAIN f : f[x] # ChangeFails => f[f[x]] = f[x]

WriteLoses ==
  IF retry.pc = "create" THEN node.exists
  ELSE ~node.exists \/ node.version # retry.oldStat

\* A changeFunc that never fails and never keeps a value.
Restless(f) == \A x \in DOMAIN f : f[x] # ChangeFails /\ f[x] # x

\* C26: the loop of RetryChange has no bound of its own.  From Get the
\* call can go on to changeFunc; with a changeFunc that always gives
\* another value it goes on to Create or Set; before that write another
\* client can change the node so that the write loses; and a write that
\* loses can send the call back to Get, however many rounds it has made.
\* The rounds of a call are bounded only by the writes of other clients.
C26_NoRetryBound ==
  /\ [](retry.pc = "get" => ENABLED (RetryGet /\ retry'.pc = "change"))
  /\ []((retry.pc = "change" /\ Restless(retry.f))
          => ENABLED (RetryApply /\ retry'.pc \in {"create", "set"}))
  /\ []((retry.pc \in {"create", "set"} /\ ~WriteLoses /\ writers < MaxOtherWrites)
          => ENABLED (OtherWrite /\ WriteLoses'))
  /\ []((retry.pc \in {"create", "set"} /\ WriteLoses)
          => ENABLED ((RetryCreate \/ RetrySet) /\ retry'.pc = "get"))
  /\ [](retry.writes <= writers + 1)

\* Every write of the other clients has cost the one call a round: it is
\* in its last round only because they write no more.
C26_Witness ==
  /\ retry.called = 1
  /\ Restless(retry.f)
  /\ writers = MaxOtherWrites
  /\ retry.writes = MaxOtherWrites
  /\ retry.applied = MaxOtherWrites + 1
  /\ retry.pc = "set"
  /\ ~WriteLoses

\* ----------------------------------------------------------------------
\* The reads at the node's path.

\* The step that led here was the return of op.
Returned(op) == out.kind = "ret" /\ out.op = op

\* The statuses the server gives a read of a path that has no node.
AbsentRc == {ZNONODE, ZNOAUTH}

\* A caller can call on an open session.
CanRead(t, zk) == Calls(t) /\ conn[zk].visible /\ conn[zk].handle = "live"

\* C27: for a path with no node, Exists returns a nil stat with a nil error
\* (no-such-node is not an error for it), while Get and Children return the
\* no-such-node error with empty data and a nil stat, and GetW and ChildrenW
\* forget their watch and return the no-such-node error without a channel.
C27_NoNodeAnswers ==
  /\ [](Returned("Exists") /\ ~node.exists
          => /\ out.err \in {ZOK, ZNOAUTH}
             /\ out = Result("Exists", EmptyValue, NoStat, out.err, FALSE))
  /\ [](\A op \in {"Get", "Children"} :
          Returned(op) /\ ~node.exists
            => /\ out.err \in AbsentRc
               /\ out = Result(op, EmptyValue, NoStat, out.err, FALSE))
  /\ [](\A t \in Threads, zk \in ConnIds :
          CanRead(t, zk) /\ ~node.exists
            => /\ ENABLED (Exists(t, zk) /\ out'.err = ZOK)
               /\ ENABLED (Get(t, zk) /\ out'.err = ZNONODE)
               /\ ENABLED (Children(t, zk) /\ out'.err = ZNONODE))
  /\ [][\A t \in Threads :
          ( /\ thread[t].pc = "w_call"
            /\ thread[t].op \in {"GetW", "ChildrenW"}
            /\ conn[thread[t].zk].handle = "live"
            /\ ~node.exists
            /\ thread'[t] # thread[t] )
               => /\ thread'[t].pc = "w_forget"
                  /\ thread'[t].rc \in AbsentRc
                  /\ out' = NoOut]_vars
  /\ [][\A t \in Threads :
          ( /\ thread[t].pc = "w_forget"
            /\ thread[t].rc = ZNONODE
            /\ thread'[t] # thread[t] )
               => /\ out' = Ret(thread[t].op, ZNONODE, FALSE)
                  /\ thread[t].op \in {"GetW", "ChildrenW"}
                  /\ thread[t].watchId \notin DOMAIN watchConns']_vars

\* Exists has just returned (nil, nil) for a node another client deleted.
C27_Witness ==
  /\ ~node.exists
  /\ writers > 0
  /\ out = Result("Exists", EmptyValue, NoStat, ZOK, FALSE)

\* The stat a read at the node's path has to return with a nil error: nil
\* for no node, else the node's stat.
NodeStat == IF node.exists THEN node.version ELSE NoStat

\* C28: Exists and ExistsW return the same stat and error in every state of
\* the node: nil and nil when there is no node, the node's current stat and
\* nil when there is one.
C28_SameAnswer ==
  /\ [](Returned("Exists") /\ out.err = ZOK => out.stat = NodeStat)
  /\ [][\A t \in Threads :
          ( /\ thread[t].pc = "w_call"
            /\ thread[t].op = "ExistsW"
            /\ thread'[t].pc = "idle" )
               => /\ out'.err = ZOK
                  /\ out'.stat = NodeStat]_vars

\* The node notification of a creation.
Created == <<EVENT_CREATED, STATE_CONNECTED>>

\* Caller t is inside ExistsW on an open session, about to ask the runtime.
InExistsW(t) ==
  /\ thread[t].pc = "w_call"
  /\ thread[t].op = "ExistsW"
  /\ conn[thread[t].zk].handle = "live"

\* C29: ExistsW on a path with no node succeeds and installs a watch: it
\* returns a nil stat, a nil error and an open channel, and the number of
\* pending watches has gone up by one.  The channel receives the
\* notification of the creation once: the send finds the channel empty and
\* unused, closes it and takes one off the number of pending watches, and
\* nothing is sent to it afterwards.
C29_WatchOnAbsent ==
  /\ [][\A t \in Threads :
          /\ (thread[t].pc = "idle" /\ thread'[t].pc = "w_call")
               => /\ CountPendingWatches' = CountPendingWatches + 1
                  /\ thread'[t].watchId \notin DOMAIN watchConns
                  /\ watchConns'[thread'[t].watchId] = thread'[t].zk
          /\ (InExistsW(t) /\ ~node.exists /\ thread'[t].pc = "idle")
               => /\ out' = Result("ExistsW", EmptyValue, NoStat, ZOK, TRUE)
                  /\ thread[t].watchId \in returned'
                  /\ thread[t].watchId \in installed'
                  /\ thread[t].watchId \in DOMAIN watchConns'
                  /\ chan'[thread[t].watchId] = MakeChan(SessionBuf)
                  /\ CountPendingWatches' = CountPendingWatches]_vars
  /\ [](\A t \in Threads :
          InExistsW(t) /\ ~node.exists /\ panicked = NoPanic
            => ENABLED (WCall(t) /\ thread'[t].pc = "idle"))
  /\ [][\A w \in LiveOneShot :
          (w \in installed /\ Dispatch(w, Created))
            => /\ Sent(w) = 0
               /\ chan'[w].buf = <<RawEvent(Created, NextRaw)>>
               /\ chan'[w].closed
               /\ w \notin DOMAIN watchConns'
               /\ w \notin conn'[info[w].owner].watchChannels
               /\ CountPendingWatches' = CountPendingWatches - 1]_vars
  /\ [](\A w \in LiveOneShot :
          w \in installed /\ rawQueue # << >> /\ panicked = NoPanic
            => ENABLED Dispatch(w, Created))
  /\ [](\A w \in DOMAIN info : info[w].kind = "watch" => Sent(w) <= 1)
  /\ [][\A w \in DOMAIN info :
          info[w].kind = "watch" /\ info[w].fate # "live" => chan'[w] = chan[w]
            \/ Len(chan'[w].buf) < Len(chan[w].buf)]_vars

\* ExistsW has just returned its channel for a node that another client
\* created and deleted again, after the channel of an earlier watch delivered
\* its notification to the consumer and was closed.
C29_Witness ==
  /\ ~node.exists
  /\ writers = 2
  /\ out = Result("ExistsW", EmptyValue, NoStat, ZOK, TRUE)
  /\ \E w \in DOMAIN info :
       /\ info[w].kind = "watch"
       /\ info[w].fate = "delivered"
       /\ recvd[w].n = 1
       /\ chan[w].closed
       /\ w \notin DOMAIN watchConns

\* The ids in the watch tables of the Conns.
Channelled == UNION { conn[zk].watchChannels : zk \in ConnIds }

\* C30: the table of all watches and the tables of the Conns agree in every
\* state: watchConns maps an id to a Conn exactly when that Conn's
\* watchChannels holds the id, with a channel that is open; no id is in
\* the tables of two Conns; and every step that changes one table changes
\* the other by the same ids.
C30_TablesAgree ==
  /\ [](\A w \in 0 .. MaxWatches, zk \in ConnIds :
          (w \in DOMAIN watchConns /\ watchConns[w] = zk)
            <=> w \in conn[zk].watchChannels)
  /\ [](\A w \in DOMAIN watchConns : w \in DOMAIN chan /\ ~chan[w].closed)
  /\ [](\A zk \in ConnIds, other \in ConnIds :
          zk # other => conn[zk].watchChannels \cap conn[other].watchChannels = {})
  /\ [][/\ (DOMAIN watchConns') \ DOMAIN watchConns = Channelled' \ Channelled
         /\ (DOMAIN watchConns) \ DOMAIN watchConns' = Channelled \ Channelled'
         /\ \A w \in (DOMAIN watchConns) \cap DOMAIN watchConns' :
              watchConns'[w] = watchConns[w]]_vars

\* Two Conns each hold a watch, after a watch was forgotten or delivered.
C30_Witness ==
  /\ \E zk \in ConnIds, other \in ConnIds :
       /\ zk # other
       /\ conn[zk].watchChannels # {}
       /\ conn[other].watchChannels # {}
       /\ DOMAIN watchConns = conn[zk].watchChannels \cup conn[other].watchChannels
  /\ \E w \in DOMAIN info : info[w].fate \in {"forgotten", "delivered"}

\* ----------------------------------------------------------------------
\* Interleavings of the dispatcher, Close and the calls.

\* The ids in the table of Conn zk or in watchConns.
Tabled == Channelled \cup DOMAIN watchConns

\* Channel w is closed by the step.
Closes(w) == ~chan[w].closed /\ chan'[w].closed

\* C31: in every interleaving of the dispatcher with Close, failing dials
\* and registrations, nothing is sent on a closed channel and a channel is
\* closed at most once: the channels the tables hold are open, a step
\* closes only channels the tables hold and takes them out of the tables,
\* and the channel of a watch is closed by its delivery or by the
\* closeAllWatches of its Conn, never by both.
C31_ClosedOnce ==
  /\ [](\A w \in Tabled : ~chan[w].closed)
  /\ [][\A w \in DOMAIN chan :
          /\ chan[w].closed
               => /\ chan'[w].closed
                  /\ Len(chan'[w].buf) <= Len(chan[w].buf)
                  /\ info'[w].fate = info[w].fate
          /\ Closes(w)
               => /\ w \in Tabled
                  /\ w \notin Tabled'
                  /\ info[w].fate = "live"
                  /\ info'[w].fate \in {"delivered", "closed"}
                  /\ info'[w].fate = "delivered"
                       <=> Len(chan'[w].buf) = Len(chan[w].buf) + 1
                  /\ info'[w].fate = "closed" <=> chan'[w].buf = chan[w].buf]_vars
  /\ [](\A w \in DOMAIN chan :
          chan[w].closed <=> info[w].fate \in {"delivered", "closed"})

\* One channel was closed by the delivery of its event and another by the
\* closeAllWatches of its Conn.
C31_Witness ==
  /\ \E w \in DOMAIN info : info[w].fate = "delivered" /\ chan[w].closed
  /\ \E w \in DOMAIN info : info[w].fate = "closed" /\ chan[w].closed
  /\ panicked = NoPanic

\* ----------------------------------------------------------------------
\* RetryChange among other writers.

\* C32: RetryChange loses no update: when a call returns nil after a Set,
\* that Set was applied, and it was applied to the very node state whose
\* value the changeFunc was given: the node held the value and version
\* read, and holds the new value at the next version.
C32_NoLostUpdate ==
  [][(retry.pc = "set" /\ out' = Ret("RetryChange", ZOK, FALSE))
       => /\ node.exists
          /\ node.version = retry.oldStat
          /\ node.value = retry.oldValue
          /\ node' = [node EXCEPT !.value = retry.newValue, !.version = @ + 1]]_vars

\* ----------------------------------------------------------------------
\* Operations next to Close.

\* C33: no operation passes to the runtime a handle that zookeeper_close
\* has been called on: an operation that races with Close of its Conn makes
\* its native call on the open handle or on nil.
C33_NoClosedHandle ==
  [][\A t \in Threads :
       (thread[t].pc = "w_call" /\ thread'[t] # thread[t])
         => conn[thread[t].zk].handle \in {"live", "nil"}]_vars

\* No call is under way.
Quiescent == \A t \in Threads : thread[t].pc = "idle"

\* Close of Conn zk has returned.
Closed(zk) == conn[zk].visible /\ conn[zk].handle = "nil"

\* C34: once the calls have returned, a closed Conn has no watch in the
\* tables, whether the watching calls ran before, during or after its Close.
C34_ClosedHoldsNothing ==
  [](\A zk \in ConnIds :
       (Quiescent /\ Closed(zk))
         => /\ conn[zk].watchChannels = {}
            /\ \A w \in DOMAIN watchConns : watchConns[w] # zk)

\* ----------------------------------------------------------------------
\* Watch ids.

\* Caller t is given a watch id by the step.
Registers(t) ==
  /\ thread[t].pc = "idle"
  /\ thread'[t].pc \in {"w_call", "dial_init"}

\* The ids held by callers inside a dial or a watching call.
Held(t) == IF thread[t].watchId = NoWatch THEN {} ELSE {thread[t].watchId}

\* C35: watch ids are unique and increase: a registration gets the value
\* of watchCounter, which no earlier registration got, and raises it by
\* one; concurrent callers hold different ids; the id of a watch that was
\* delivered, forgotten or closed never comes back into the tables, and
\* the notification for an id touches no channel but that id's own.
C35_IdsUnique ==
  /\ [][ /\ watchCounter' \in {watchCounter, watchCounter + 1}
         /\ \A t \in Threads :
              Registers(t)
                => /\ thread'[t].watchId = watchCounter
                   /\ watchCounter' = watchCounter + 1
                   /\ watchCounter \notin DOMAIN info
                   /\ \A w \in DOMAIN info : w < watchCounter
                   /\ DOMAIN watchConns' = (DOMAIN watchConns) \cup {watchCounter}
         /\ \A w \in DOMAIN info :
              /\ w \in DOMAIN info'
              /\ info'[w].owner = info[w].owner
              /\ info'[w].kind = info[w].kind
              /\ info[w].fate # "live"
                   => (info'[w].fate = info[w].fate /\ w \notin DOMAIN watchConns')
         /\ \A w \in AllocIds, k \in RawKinds :
              Dispatch(w, k)
                => \A v \in (DOMAIN chan) \ {w} : chan'[v] = chan[v]]_vars
  /\ [](\A t \in Threads, u \in Threads : t # u => Held(t) \cap Held(u) = {})
  /\ [](DOMAIN info = AllocIds /\ DOMAIN watchConns \subseteq AllocIds)
  /\ [](\A w \in DOMAIN watchConns : info[w].fate = "live")

\* Two callers are inside watching calls at once, each with its id, and
\* every id of the scenario has been issued.
C35_Witness ==
  /\ \E t \in Threads, u \in Threads :
       /\ thread[t].pc = "w_call"
       /\ thread[u].pc \in {"w_call", "w_forget"}
       /\ thread[t].watchId > thread[u].watchId
  /\ watchCounter = MaxWatches

\* ----------------------------------------------------------------------
\* The session watch of a dial.

\* The session watches the runtime knows and no Close or failing dial has
\* closed.
SessionWatches ==
  { w \in Live : info[w].kind = "session" /\ w \in installed }

\* C36: dial registers the session watch and sets zk.sessionWatchId before
\* the connect call, so from that call on the tables hold the session
\* watch as the session watch of its Conn, and every notification for it
\* is sent to its channel: none is dropped.
C36_SessionWatchFirst ==
  /\ [][\A t \in Threads :
          /\ (thread[t].pc = "idle" /\ thread'[t].pc = "dial_init")
               => /\ thread'[t].watchId \in DOMAIN watchConns'
                  /\ thread'[t].watchId \notin installed'
          /\ (thread[t].pc = "dial_init" /\ thread'[t].pc = "dial_run")
               => /\ thread[t].watchId \in DOMAIN watchConns
                  /\ thread[t].watchId \notin installed
                  /\ thread[t].watchId \in installed'
                  /\ conn'[thread[t].zk].sessionWatchId = thread[t].watchId]_vars
  /\ [](\A w \in SessionWatches :
          /\ w \in DOMAIN watchConns
          /\ watchConns[w] = info[w].owner
          /\ w \in conn[info[w].owner].watchChannels
          /\ conn[info[w].owner].sessionWatchId = w
          /\ info[w].dropped = "no")
  /\ [][\A w \in SessionWatches, k \in RawKinds :
          Dispatch(w, k)
            => /\ chan'[w].buf = Append(chan[w].buf, RawEvent(k, NextRaw))
               /\ ~chan'[w].closed
               /\ panicked' = NoPanic]_vars
  /\ [](\A w \in SessionWatches, k \in RawKinds :
          (rawQueue # << >> /\ loops > 0 /\ panicked = NoPanic)
            => ENABLED Dispatch(w, k))

\* The dispatcher, started for an earlier Conn, has delivered a notification
\* to the session channel of a Conn whose dial has not yet returned.
C36_Witness ==
  \E t \in Threads :
    /\ thread[t].pc = "dial_run"
    /\ thread[t].watchId \in SessionWatches
    /\ Sent(thread[t].watchId) = 1
    /\ ~conn[thread[t].zk].visible

\* ----------------------------------------------------------------------
\* The overflow of a channel.

\* The one-shot watches: those of GetW, ChildrenW and ExistsW.
OneShot == { w \in DOMAIN info : info[w].kind = "watch" }

Repeats == retry.pc \in {"create", "set"} /\ retry'.pc = "get"

\* C38: a call of RetryChange returns when the other clients write only
\* finitely often, and each further round has its cause in a write of
\* another client between the read and the write of the round: with no
\* such write the call returns after one read, one call of the changeFunc
\* and at most one write.
C38_Returns ==
  /\ (retry.pc # "idle") ~> (retry.pc = "idle")
  /\ [][ /\ Repeats => (NodeStat # retry.oldStat /\ writers > 0)
         /\ (retry.pc = "idle" /\ retry'.pc # "idle")
              => (retry'.applied = 0 /\ retry'.writes = 0 /\ retry'.pc = "get") ]_vars
  /\ [](retry.applied <= writers + 1)
  /\ [](retry.writes <= retry.applied)
  /\ [](writers = 0 => (retry.applied <= 1 /\ retry.writes <= 1))

\* After a first call and the two writes of other clients, a second call
\* has returned nil after one round: it set the node it read.
C38_Witness ==
  /\ retry.pc = "idle"
  /\ retry.called = 2
  /\ retry.applied = 1
  /\ retry.writes = 1
  /\ writers = MaxOtherWrites
  /\ retry.start.exists
  /\ retry.start.version = MaxOtherWrites + 1
  /\ out = Ret("RetryChange", ZOK, FALSE)
  /\ node.value = retry.newValue

\* ----------------------------------------------------------------------
\* The two locks.

\* The next step of a caller that is inside a call and not waiting for
\* zk.mutex.  The steps from createWatch, forgetWatch, closeAllWatches, and
\* stopWatchLoop on are those that take watchMutex.
Step(t) ==
  \/ DialInit(t)
  \/ DialRun(t)
  \/ WCall(t)
  \/ WForget(t)
  \/ CloseWatches(t)
  \/ CloseEnd(t)

\* Caller t waits in zk.mutex.Lock() of Conn zk.
Waits(t, zk) == thread[t].pc = "close_wait" /\ thread[t].zk = zk

\* C39: zk.mutex is taken first and watchMutex inside it, never the other
\* way round, so there is no deadlock: zk.mutex is held only by a caller
\* between the Lock and the return of Close, that caller waits for no
\* lock, and neither it nor any other caller inside a call is ever without
\* a next step; a caller waiting for zk.mutex gets on as soon as it is
\* released, and the dispatcher can always handle the next notification.
C39_NoDeadlock ==
  /\ [](\A zk \in ConnIds :
          /\ conn[zk].mutex # 0
               => /\ conn[zk].mutex \in Closers(zk)
                  /\ Closers(zk) = {conn[zk].mutex}
          /\ conn[zk].mutex = 0 => Closers(zk) = {}
          /\ \A t \in Threads : Waits(t, zk) => conn[zk].mutex # t)
  /\ [](panicked = NoPanic
          => /\ \A t \in Threads :
                  thread[t].pc \notin {"idle", "close_wait"} => ENABLED Step(t)
             /\ \A t \in Threads, zk \in ConnIds :
                  (Waits(t, zk) /\ conn[zk].mutex = 0) => ENABLED CloseLock(t, zk)
             /\ (loops > 0 /\ rawQueue # << >>) => ENABLED WatchLoop)
  /\ [][\A t \in Threads, zk \in ConnIds :
          (Waits(t, zk) /\ thread'[t] # thread[t])
            => /\ conn[zk].mutex = 0
               /\ thread'[t].pc \in {"idle", "close_watches"}]_vars

\* One caller holds zk.mutex and is about to run closeAllWatches, another
\* waits for zk.mutex in Close of the same Conn, and the dispatcher has a
\* notification to handle.
C39_Witness ==
  \E t \in Threads, u \in Threads, zk \in ConnIds :
    /\ thread[t].pc = "close_watches"
    /\ thread[t].zk = zk
    /\ conn[zk].mutex = t
    /\ Waits(u, zk)
    /\ rawQueue # << >>
    /\ loops > 0

====
